---- MODULE Spec2Model ----
(***************************************************************************)
(* Model of the Redis-backed priority job queue (internal/queue/redis.go), *)
(* of the worker loop that consumes it, of the transcode pipeline the loop *)
(* runs (internal/service/transcode/service.go) and of the worker          *)
(* entrypoint that starts and stops the loops.                             *)
(*                                                                         *)
(* The Redis server executes one command at a time, so every Redis command *)
(* is one atomic step; a queue method that issues two commands (Dequeue:   *)
(* BZPOPMIN then SADD; Nack: SREM then ZADD or SADD) is two steps, and     *)
(* other workers, the producer, a store outage or a crash of the calling   *)
(* process can come between them. Enqueue reads the clock twice, for       *)
(* created_at and for the score: each reading is a step of its own, and    *)
(* the ZADD that carries the score is a third. The handlers of the API     *)
(* (upload, playback, delete) and the pipeline are cut the same way, at    *)
(* their calls to the metadata store, the object store and the queue: one  *)
(* step for every object uploaded and for every object deleted.            *)
(***************************************************************************)
EXTENDS Integers, FiniteSets, Sequences, TLC

\* ---------------------------------------------------------------- bounds
MaxJobs == 2        \* job ids the producer may enqueue
MaxWorkers == 2     \* consumer loops (cfg.Worker.Concurrency)
MaxNow == 1000      \* last Unix second the clock may reach
MaxSub == 2         \* readings of time.Now() kept in a job within one second
MaxOutages == 1     \* times the Redis server may stop answering
MaxRuns == 1        \* pipeline runs the consumer loop may start for the WorkItem
MaxWait == 3600     \* longest time a command is followed, in seconds
MaxDeletes == 1     \* DeleteMedia calls for the WorkItem
MaxUploads == 1     \* jobs the upload handlers build
MaxSegments == 1    \* segment files ffmpeg writes for a rendition
MaxRefused == 1     \* uploads and deletes of processed objects that may fail

\* ------------------------------------------------------ program constants
W == 1000           \* score weight of one unit of priority, in seconds
MaxAttempts == 3    \* "Max 3 attempts"
JobTimeout == 1800  \* worker.jobtimeout, in seconds

JobIds == 1..MaxJobs          \* ids, numbered in the byte order of their strings
Workers == 1..MaxWorkers
Priorities == {1, 2}          \* Job.Priority values the producer uses
TickSteps == {W}              \* seconds the clock may jump at once
WaitSteps == {JobTimeout}     \* seconds a running command is followed at once

NoJob == [id |-> 0]           \* a nil *Job

\* error values returned by the queue methods
Nil == "nil"
ErrNoJobAvailable == "no job available"
ErrDequeue == "failed to dequeue job"
ErrUnmarshal == "failed to unmarshal job"
ErrTrack == "failed to track processing job"
ErrReEnqueue == "failed to re-enqueue job"
ErrEnqueue == "failed to enqueue job"
ErrAck == "failed to ack job"

\* error values returned by ProcessMedia
ErrGetMedia == "failed to get media"
ErrDownload == "failed to download source"
ErrSave == "failed to save source"
ErrProbe == "failed to probe media"
ErrStrategy == "strategy failed"
ErrCanceled == "context canceled"
ErrMaster == "failed to generate master playlist"
ErrUpload == "failed to upload processed files"

\* error value returned by ProcessAudioFile alone
ErrNotAudio == "media is not audio"
ErrNotVideo == "media is not a video"
ErrExtract == "audio extraction failed"
ErrUploadAudioMaster == "failed to upload audio master"

VARIABLES
    clock,       \* time.Now().Unix()
    sub,         \* sub-second part of time.Now(): grows with every reading kept
    storeUp,     \* the Redis server answers commands
    pending,     \* sorted set streaming:jobs:pending: {[member, score]}
    processing,  \* set streaming:jobs:processing: serialized jobs
    dead,        \* set streaming:jobs:dead: serialized jobs
    produced,    \* per job id: outcome of the producer's Enqueue call
    enq,         \* per job id: the job of an Enqueue call that is past l.84
    scoredAt,    \* per job id: the clock reading of the score, in the latest
                 \* Enqueue call for the job
    pc,          \* per worker: position in processLoop
    job,         \* per worker: the *Job it holds
    ret,         \* per worker: the error Dequeue returned to the loop
    outages,     \* times the Redis server has stopped answering
    acked,       \* serialized jobs for which an Ack call returned nil
    ackRet,      \* return value of the last repeated Ack call
    \* the WorkItem of one media id, and one consumer loop running the pipeline
    kind,        \* Media.Type of the record in the metadata store
    status,      \* Media.Status of the record
    renditions,  \* Media.Renditions of the record: names, in append order
    dest,        \* keys present in the processed bucket
    ppc,         \* position of the consumer loop and of ProcessMedia in it
    idx,         \* index of the profile or rendition the current loop is at
    results,     \* StrategyExecutor.Execute's results so far
    master,      \* stream entries of the master playlist file on disk
    perr,        \* the error ProcessMedia returns
    cancelled,   \* the pool's context is done
    runs,        \* times the loop has called ProcessMedia
    processedAt, \* processed_at of the record: "unset" or "set"
    scratch,     \* scratch paths that exist: "source" file, "output" directory
    waited,      \* seconds the external command of the run has been running
    \* the worker entrypoint: main, the goroutine calling Start, the loops
    mainpc,      \* position of main
    startpc,     \* position of the goroutine that calls worker.Start
    launched,    \* Start's loop variable i: loops launched so far
    wg,          \* counter of Worker.wg
    lp,          \* per launched loop: position in processLoop
    played,      \* what the last call of GetPlaybackURL returned
    deleting,    \* a DeleteMedia call is between DeleteItem and ListObjects
    listed,      \* the keys ListObjects returned that the DeleteMedia call
                 \* has not yet sent a Delete for, in the order of the listing
    deletes,     \* DeleteMedia calls made so far
    refused,     \* uploads and deletes of processed objects that failed so far
    lost         \* in-flight entries whose SADD reply did not reach Dequeue

queueVars == <<clock, sub, storeUp, pending, processing, dead, produced, enq,
               pc, job, ret, outages, acked, ackRet>>

pipeVars == <<kind, status, renditions, dest, ppc, idx, results, master, perr,
              runs, processedAt, scratch, waited>>

poolVars == <<mainpc, startpc, launched, wg, lp>>

vars == <<clock, sub, storeUp, pending, processing, dead, produced, enq,
          pc, job, ret, outages, acked, ackRet, pipeVars, cancelled, poolVars,
          played, deleting, listed, deletes, refused, lost, scoredAt>>

\* ------------------------------------------------------------ Job values
\* A Job as json.Marshal writes it (the payload, fixed by the id, is left
\* out); created_at is the pair <<second, sub-second part>>, and a later
\* reading of the clock is larger in this order. The media id of the WorkItem
\* the pipeline variables follow is 1; a job built here is for another media
\* id, whose record and objects are not part of the state.
NewJob(id, priority) ==
    [id |-> id, type |-> "transcode", media_id |-> id + 1,
     priority |-> priority, created_at |-> <<0, 0>>, attempts |-> 0]

\* Byte order of two serialized jobs: fields compare in the order the struct
\* declares them (id first; type is the same in all); all numbers here have
\* one digit.
MemberLess(a, b) ==
    LET ka == <<a.id, a.media_id, a.priority, a.created_at[1],
                a.created_at[2], a.attempts>>
        kb == <<b.id, b.media_id, b.priority, b.created_at[1],
                b.created_at[2], b.attempts>>
    IN \E i \in 1..6 : /\ ka[i] < kb[i]
                       /\ \A k \in 1..(i-1) : ka[k] = kb[k]

\* ------------------------------------------------------- Redis primitives
ZAdd(zset, member, score) ==
    {e \in zset : e.member # member} \cup {[member |-> member, score |-> score]}

\* lowest score first, equal scores in byte order of the member
ZMin(zset) ==
    CHOOSE e \in zset : \A o \in zset \ {e} :
        \/ e.score < o.score
        \/ e.score = o.score /\ MemberLess(e.member, o.member)

SAdd(set, member) == set \cup {member}

SRem(set, member) == set \ {member}

\* number of members SREM removed
SRemCount(set, member) == IF member \in set THEN 1 ELSE 0

\* ------------------------------------------------------------ RedisQueue
\* variant: the priority term with the wrong sign
ScoreFlipped(sec, priority) == sec + priority * W

\* score := float64(time.Now().Unix()) - float64(job.Priority*1000)
Score(sec, priority) == sec - priority * W

\* Enqueue's effect on the caller's job: job.CreatedAt = time.Now()
Stamp(j) == [j EXCEPT !.created_at = <<clock, sub>>]

\* no Enqueue call for the job has computed a score yet
NoReading == -1

\* Enqueue's second reading of the clock, time.Now().Unix() of the score,
\* in a call for job j
ReadScore(j) == [scoredAt EXCEPT ![j.id] = clock]

\* the ZADD of Enqueue as the server executes it, for the job j stamped
\* before: the score is the one computed from the reading ReadScore took
EnqueueSet(zset, j) == ZAdd(zset, j, Score(scoredAt[j.id], j.priority))

\* a stored member that is not the JSON of a Job
Garbage ==
    [id |-> 0, type |-> "garbage", media_id |-> 0, priority |-> 0,
     created_at |-> <<0, 0>>, attempts |-> 0]

\* Dequeue: the error of json.Unmarshal on a popped member
UnmarshalError(data) == IF data = Garbage THEN ErrUnmarshal ELSE Nil

\* variant: an Ack that removed nothing is an error
AckErrorStrict(up, removed) ==
    IF ~up THEN ErrAck ELSE IF removed = 0 THEN "job not in flight" ELSE Nil

\* Ack's return value, from the outcome of its SREM
AckError(up, removed) == IF up THEN Nil ELSE ErrAck

\* variant: the increment is missing
NackAttemptsSame(a) == a

\* job.Attempts++
NackAttempts(a) == a + 1

\* variant: <= instead of <
NackRetriesOffByOne(a) == a <= MaxAttempts

\* variant: no attempt limit
NackRetriesAlways(a) == TRUE

\* if job.Attempts < 3
NackRetries(a) == a < MaxAttempts

\* the value Nack adds to the dead-letter set: data was marshalled before
\* job.Attempts++
DeadLetterRecord(data, j) == data

\* ---------------------------------------------------------------- playback
ErrNotProcessed == "media not yet processed"
ErrMediaNotFound == "media not found"

\* the (string, error) pair a call returns
Returned(url, err) == [url |-> url, err |-> err]

IsProcessedStatusOnly(st, rends) == st = "completed"

\* domain.Media.IsProcessed
IsProcessed(st, rends) == st = "completed" /\ Len(rends) > 0

\* domain.Media.GetMasterPlaylistKey of the WorkItem
MasterPlaylistKey == "1/master.m3u8"

\* stream.Service.buildPlaybackURL; cdn: a CloudFront domain is configured
BuildPlaybackURL(cdn, key) == IF cdn THEN "https://cdn/" \o key ELSE ""

\* ------------------------------------------------------------------ Init
Init ==
    /\ clock = 0
    /\ sub = 0
    /\ storeUp = TRUE
    /\ pending = {}
    /\ processing = {}
    /\ dead = {}
    /\ produced = [i \in JobIds |-> "no"]
    /\ enq = [i \in JobIds |-> NoJob]
    /\ scoredAt = [i \in JobIds |-> NoReading]
    /\ pc = [w \in Workers |-> "loop"]
    /\ job = [w \in Workers |-> NoJob]
    /\ ret = [w \in Workers |-> Nil]
    /\ outages = 0
    /\ acked = {}
    /\ ackRet = "none"
    /\ kind = "none"
    /\ status = "none"
    /\ renditions = <<>>
    /\ dest = {}
    /\ ppc = "top"
    /\ idx = 0
    /\ results = <<>>
    /\ master = <<>>
    /\ perr = Nil
    /\ cancelled = FALSE
    /\ runs = 0
    /\ processedAt = "unset"
    /\ scratch = {}
    /\ waited = 0
    /\ played = Returned("", "not called")   \* no call has returned yet
    /\ deleting = FALSE
    /\ listed = <<>>
    /\ deletes = 0
    /\ refused = 0
    /\ lost = {}
    /\ mainpc = "spawn"
    /\ startpc = "idle"
    /\ launched = 0
    /\ wg = 0
    /\ lp = [l \in Workers |-> "none"]

\* ----------------------------------------------------------- environment
\* time passes
Tick(d) ==
    /\ clock + d <= MaxNow
    /\ clock' = clock + d
    /\ sub' = 0
    /\ UNCHANGED <<storeUp, pending, processing, dead, produced, pc, job,
                   ret, outages, acked, ackRet>>
    /\ UNCHANGED <<pipeVars, cancelled, poolVars>>
    /\ UNCHANGED <<enq, played, deleting, listed, deletes, refused, lost,
                   scoredAt>>

\* the Redis server stops answering
StoreDown ==
    /\ storeUp
    /\ outages < MaxOutages
    /\ storeUp' = FALSE
    /\ outages' = outages + 1
    /\ UNCHANGED <<clock, sub, pending, processing, dead, produced, pc, job,
                   ret, acked, ackRet>>
    /\ UNCHANGED <<pipeVars, cancelled, poolVars>>
    /\ UNCHANGED <<enq, played, deleting, listed, deletes, refused, lost,
                   scoredAt>>

\* something other than Enqueue has written a member that is not a Job into
\* the pending sorted set
StoreGarbage ==
    /\ storeUp
    /\ \A e \in pending : e.member # Garbage
    /\ pending' = ZAdd(pending, Garbage, Score(clock, 1))
    /\ UNCHANGED <<clock, sub, storeUp, processing, dead, produced, pc, job,
                   ret, outages, acked, ackRet>>
    /\ UNCHANGED <<pipeVars, cancelled, poolVars>>
    /\ UNCHANGED <<enq, played, deleting, listed, deletes, refused, lost,
                   scoredAt>>

\* the Redis server answers again
StoreRecover ==
    /\ ~storeUp
    /\ storeUp' = TRUE
    /\ UNCHANGED <<clock, sub, pending, processing, dead, produced, pc, job,
                   ret, outages, acked, ackRet>>
    /\ UNCHANGED <<pipeVars, cancelled, poolVars>>
    /\ UNCHANGED <<enq, played, deleting, listed, deletes, refused, lost,
                   scoredAt>>

\* -------------------------------------------------------------- producer
\* Enqueue(job) called by a producer with a fresh job: job.CreatedAt =
\* time.Now() and the json.Marshal
EnqueueStamp(id, priority) ==
    /\ produced[id] = "no"
    /\ enq[id] = NoJob
    /\ sub < MaxSub
    /\ enq' = [enq EXCEPT ![id] = Stamp(NewJob(id, priority))]
    /\ sub' = sub + 1
    /\ UNCHANGED <<clock, storeUp, pending, processing, dead, produced, pc,
                   job, ret, outages, acked, ackRet>>
    /\ UNCHANGED <<pipeVars, cancelled, poolVars>>
    /\ UNCHANGED <<played, deleting, listed, deletes, refused, lost, scoredAt>>

\* Enqueue: score := float64(time.Now().Unix()) - ..., and the ZADD is sent
EnqueueScore(id) ==
    /\ enq[id] # NoJob
    /\ scoredAt[id] = NoReading
    /\ scoredAt' = ReadScore(enq[id])
    /\ UNCHANGED <<clock, sub, storeUp, pending, processing, dead, produced,
                   enq, pc, job, ret, outages, acked, ackRet>>
    /\ UNCHANGED <<pipeVars, cancelled, poolVars>>
    /\ UNCHANGED <<played, deleting, listed, deletes, refused, lost>>

\* Enqueue: the server executes the ZADD, or does not answer; the return
Enqueue(id) ==
    /\ enq[id] # NoJob
    /\ scoredAt[id] # NoReading
    /\ IF storeUp
       THEN /\ pending' = EnqueueSet(pending, enq[id])
            /\ produced' = [produced EXCEPT ![id] = "ok"]
       ELSE /\ produced' = [produced EXCEPT ![id] = ErrEnqueue]
            /\ UNCHANGED pending
    /\ enq' = [enq EXCEPT ![id] = NoJob]
    /\ UNCHANGED <<clock, sub, storeUp, processing, dead, pc, job, ret,
                   outages, acked, ackRet>>
    /\ UNCHANGED <<pipeVars, cancelled, poolVars>>
    /\ UNCHANGED <<played, deleting, listed, deletes, refused, lost, scoredAt>>

\* ----------------------------------------------------------- processLoop
\* variant: an error of Dequeue ends the loop
LoopBranchFatal(err, j) ==
    IF err # Nil THEN "crashed"
    ELSE IF j.id = 0 THEN "empty"
    ELSE "process"

\* where processLoop goes with Dequeue's return values: the log.Error of
\* the err != nil branch, the continue of the job == nil branch, or on to
\* ProcessMedia
LoopBranch(err, j) ==
    IF err # Nil THEN "deqerr"
    ELSE IF j.id = 0 THEN "empty"
    ELSE "process"

\* variant: the lowest member is read but not removed
DequeuePopPeek(w) ==
    /\ pc[w] = "loop"
    /\ storeUp
    /\ pending # {}
    /\ job' = [job EXCEPT ![w] = ZMin(pending).member]
    /\ pc' = [pc EXCEPT ![w] = "track"]
    /\ UNCHANGED <<clock, sub, storeUp, pending, processing, dead, produced,
                   ret, outages, acked, ackRet>>
    /\ UNCHANGED <<pipeVars, cancelled, poolVars>>
    /\ UNCHANGED <<enq, played, deleting, listed, deletes, refused, lost,
                   scoredAt>>

\* Dequeue, up to the reply to BZPOPMIN and the json.Unmarshal of the member
DequeuePop(w) ==
    /\ pc[w] = "loop"
    /\ IF ~storeUp
       THEN /\ pc' = [pc EXCEPT ![w] = LoopBranch(ErrDequeue, NoJob)]
            /\ ret' = [ret EXCEPT ![w] = ErrDequeue]
            /\ UNCHANGED <<pending, job>>
       ELSE IF pending = {}
       THEN \* redis.Nil after the timeout
            /\ pc' = [pc EXCEPT ![w] = LoopBranch(ErrNoJobAvailable, NoJob)]
            /\ ret' = [ret EXCEPT ![w] = ErrNoJobAvailable]
            /\ UNCHANGED <<pending, job>>
       ELSE IF UnmarshalError(ZMin(pending).member) # Nil
       THEN \* the member is popped, then the error is returned
            /\ pending' = pending \ {ZMin(pending)}
            /\ pc' = [pc EXCEPT ![w] =
                        LoopBranch(UnmarshalError(ZMin(pending).member), NoJob)]
            /\ ret' = [ret EXCEPT ![w] = UnmarshalError(ZMin(pending).member)]
            /\ UNCHANGED job
       ELSE /\ pending' = pending \ {ZMin(pending)}
            /\ job' = [job EXCEPT ![w] = ZMin(pending).member]
            /\ pc' = [pc EXCEPT ![w] = "track"]
            /\ UNCHANGED ret
    /\ UNCHANGED <<clock, sub, storeUp, processing, dead, produced, outages,
                   acked, ackRet>>
    /\ UNCHANGED <<pipeVars, cancelled, poolVars>>
    /\ UNCHANGED <<enq, played, deleting, listed, deletes, refused, lost,
                   scoredAt>>

\* Dequeue: SADD of the popped member to the processing set
DequeueTrack(w) ==
    /\ pc[w] = "track"
    /\ IF storeUp
       THEN /\ processing' = SAdd(processing, job[w])
            /\ pc' = [pc EXCEPT ![w] = LoopBranch(Nil, job[w])]
       ELSE /\ pc' = [pc EXCEPT ![w] = "requeue"]
            /\ UNCHANGED processing
    /\ UNCHANGED <<clock, sub, storeUp, pending, dead, produced, job, ret,
                   outages, acked, ackRet>>
    /\ UNCHANGED <<pipeVars, cancelled, poolVars>>
    /\ UNCHANGED <<enq, played, deleting, listed, deletes, refused, lost,
                   scoredAt>>

\* Dequeue: the server executes the SADD of the popped member and stops
\* answering before its reply reaches the client, which gets an error
DequeueTrackLost(w) ==
    /\ pc[w] = "track"
    /\ storeUp
    /\ outages < MaxOutages
    /\ processing' = SAdd(processing, job[w])
    /\ storeUp' = FALSE
    /\ outages' = outages + 1
    /\ pc' = [pc EXCEPT ![w] = "requeue"]
    /\ UNCHANGED <<clock, sub, pending, dead, produced, job, ret, acked,
                   ackRet>>
    /\ UNCHANGED <<pipeVars, cancelled, poolVars>>
    /\ lost' = lost \cup {job[w]}
    /\ UNCHANGED <<enq, played, deleting, listed, deletes, refused, scoredAt>>

\* Dequeue: the re-enqueue after a failed SADD, up to Enqueue's
\* job.CreatedAt = time.Now()
DequeueRequeueStamp(w) ==
    /\ pc[w] = "requeue"
    /\ sub < MaxSub
    /\ job' = [job EXCEPT ![w] = Stamp(job[w])]
    /\ sub' = sub + 1
    /\ pc' = [pc EXCEPT ![w] = "requeue2"]
    /\ UNCHANGED <<clock, storeUp, pending, processing, dead, produced, ret,
                   outages, acked, ackRet>>
    /\ UNCHANGED <<pipeVars, cancelled, poolVars>>
    /\ UNCHANGED <<enq, played, deleting, listed, deletes, refused, lost,
                   scoredAt>>

\* Dequeue: the re-enqueue, Enqueue's reading of the clock for the score
DequeueRequeueScore(w) ==
    /\ pc[w] = "requeue2"
    /\ scoredAt' = ReadScore(job[w])
    /\ pc' = [pc EXCEPT ![w] = "requeue3"]
    /\ UNCHANGED <<clock, sub, storeUp, pending, processing, dead, produced,
                   job, ret, outages, acked, ackRet>>
    /\ UNCHANGED <<pipeVars, cancelled, poolVars>>
    /\ UNCHANGED <<enq, played, deleting, listed, deletes, refused, lost>>

\* Dequeue: the server executes the ZADD of the re-enqueue, or does not
\* answer; the return
DequeueRequeue(w) ==
    /\ pc[w] = "requeue3"
    /\ IF storeUp
       THEN /\ pending' = EnqueueSet(pending, job[w])
            /\ pc' = [pc EXCEPT ![w] = LoopBranch(ErrTrack, NoJob)]
            /\ ret' = [ret EXCEPT ![w] = ErrTrack]
       ELSE /\ pc' = [pc EXCEPT ![w] = LoopBranch(ErrReEnqueue, NoJob)]
            /\ ret' = [ret EXCEPT ![w] = ErrReEnqueue]
            /\ UNCHANGED pending
    /\ job' = [job EXCEPT ![w] = NoJob]
    /\ UNCHANGED <<clock, sub, storeUp, processing, dead, produced, outages,
                   acked, ackRet>>
    /\ UNCHANGED <<pipeVars, cancelled, poolVars>>
    /\ UNCHANGED <<enq, played, deleting, listed, deletes, refused, lost,
                   scoredAt>>

\* the continue statements after a Dequeue that returned no job
Continue(w) ==
    /\ pc[w] \in {"deqerr", "empty"}
    /\ pc' = [pc EXCEPT ![w] = "loop"]
    /\ ret' = [ret EXCEPT ![w] = Nil]
    /\ UNCHANGED <<clock, sub, storeUp, pending, processing, dead, produced,
                   job, outages, acked, ackRet>>
    /\ UNCHANGED <<pipeVars, cancelled, poolVars>>
    /\ UNCHANGED <<enq, played, deleting, listed, deletes, refused, lost,
                   scoredAt>>

\* variant: the loop acknowledges whatever ProcessMedia returned
ProcessAlwaysAck(w, ok) ==
    /\ pc[w] = "process"
    /\ pc' = [pc EXCEPT ![w] = "ack"]
    /\ UNCHANGED <<clock, sub, storeUp, pending, processing, dead, produced,
                   job, ret, outages, acked, ackRet>>
    /\ UNCHANGED <<pipeVars, cancelled, poolVars>>
    /\ UNCHANGED <<enq, played, deleting, listed, deletes, refused, lost,
                   scoredAt>>

\* ProcessMedia returns nil or an error, for a job whose media id is not the
\* WorkItem's: what the run does to that record is outside the state
Process(w, ok) ==
    /\ pc[w] = "process"
    /\ pc' = [pc EXCEPT ![w] = IF ok THEN "ack" ELSE "nack"]
    /\ UNCHANGED <<clock, sub, storeUp, pending, processing, dead, produced,
                   job, ret, outages, acked, ackRet>>
    /\ UNCHANGED <<pipeVars, cancelled, poolVars>>
    /\ UNCHANGED <<enq, played, deleting, listed, deletes, refused, lost,
                   scoredAt>>

\* a caller of the Queue interface changes the priority of the job object it
\* got from Dequeue before it calls Ack or Nack
CallerEdit(w) ==
    /\ pc[w] = "process"
    /\ \E p \in Priorities \ {job[w].priority} :
         job' = [job EXCEPT ![w].priority = p]
    /\ UNCHANGED <<clock, sub, storeUp, pending, processing, dead, produced,
                   pc, ret, outages, acked, ackRet>>
    /\ UNCHANGED <<pipeVars, cancelled, poolVars>>
    /\ UNCHANGED <<enq, played, deleting, listed, deletes, refused, lost,
                   scoredAt>>

\* Ack, and the end of the loop body
Ack(w) ==
    /\ pc[w] = "ack"
    /\ processing' = IF storeUp THEN SRem(processing, job[w]) ELSE processing
    /\ acked' = IF AckError(storeUp, SRemCount(processing, job[w])) = Nil
                THEN acked \cup {job[w]} ELSE acked
    /\ pc' = [pc EXCEPT ![w] = "loop"]
    /\ job' = [job EXCEPT ![w] = NoJob]
    /\ UNCHANGED <<clock, sub, storeUp, pending, dead, produced, ret, outages,
                   ackRet>>
    /\ UNCHANGED <<pipeVars, cancelled, poolVars>>
    /\ UNCHANGED <<enq, played, deleting, listed, deletes, refused, lost,
                   scoredAt>>

\* Nack: SREM of the marshalled job from the processing set
NackRemove(w) ==
    /\ pc[w] = "nack"
    /\ IF storeUp
       THEN /\ processing' = SRem(processing, job[w])
            /\ pc' = [pc EXCEPT ![w] = "nack2"]
            /\ UNCHANGED job
       ELSE /\ pc' = [pc EXCEPT ![w] = "loop"]
            /\ job' = [job EXCEPT ![w] = NoJob]
            /\ UNCHANGED processing
    /\ UNCHANGED <<clock, sub, storeUp, pending, dead, produced, ret, outages,
                   acked, ackRet>>
    /\ UNCHANGED <<pipeVars, cancelled, poolVars>>
    /\ UNCHANGED <<enq, played, deleting, listed, deletes, refused, lost,
                   scoredAt>>

\* Nack: job.Attempts++ and, below the limit, Enqueue's job.CreatedAt =
\* time.Now()
NackStamp(w) ==
    /\ pc[w] = "nack2"
    /\ NackRetries(NackAttempts(job[w].attempts))
    /\ sub < MaxSub
    /\ job' = [job EXCEPT ![w] =
                 Stamp([job[w] EXCEPT !.attempts = NackAttempts(job[w].attempts)])]
    /\ sub' = sub + 1
    /\ pc' = [pc EXCEPT ![w] = "nack3"]
    /\ UNCHANGED <<clock, storeUp, pending, processing, dead, produced, ret,
                   outages, acked, ackRet>>
    /\ UNCHANGED <<pipeVars, cancelled, poolVars>>
    /\ UNCHANGED <<enq, played, deleting, listed, deletes, refused, lost,
                   scoredAt>>

\* Nack: the re-enqueue, Enqueue's reading of the clock for the score
NackScore(w) ==
    /\ pc[w] = "nack3"
    /\ scoredAt' = ReadScore(job[w])
    /\ pc' = [pc EXCEPT ![w] = "nack4"]
    /\ UNCHANGED <<clock, sub, storeUp, pending, processing, dead, produced,
                   job, ret, outages, acked, ackRet>>
    /\ UNCHANGED <<pipeVars, cancelled, poolVars>>
    /\ UNCHANGED <<enq, played, deleting, listed, deletes, refused, lost>>

\* Nack: the server executes the ZADD of the re-enqueue, or job.Attempts++
\* at the limit and the dead-letter SADD; then the return
NackFinish(w) ==
    /\ \/ /\ pc[w] = "nack4"
          /\ pending' = IF storeUp THEN EnqueueSet(pending, job[w])
                         ELSE pending
          /\ UNCHANGED dead
       \/ /\ pc[w] = "nack2"
          /\ ~NackRetries(NackAttempts(job[w].attempts))
          /\ LET data == job[w]
                 j == [job[w] EXCEPT !.attempts = NackAttempts(job[w].attempts)]
             IN dead' = IF storeUp THEN SAdd(dead, DeadLetterRecord(data, j))
                        ELSE dead
          /\ UNCHANGED pending
    /\ pc' = [pc EXCEPT ![w] = "loop"]
    /\ job' = [job EXCEPT ![w] = NoJob]
    /\ UNCHANGED <<clock, sub, storeUp, processing, produced, ret, outages,
                   acked, ackRet>>
    /\ UNCHANGED <<pipeVars, cancelled, poolVars>>
    /\ UNCHANGED <<enq, played, deleting, listed, deletes, refused, lost,
                   scoredAt>>

\* the worker process dies inside Dequeue, between BZPOPMIN and the end of
\* the call (a crash anywhere else is a loop that takes no further step)
Crash(w) ==
    /\ pc[w] \in {"track", "requeue", "requeue2", "requeue3"}
    /\ pc' = [pc EXCEPT ![w] = "crashed"]
    /\ job' = [job EXCEPT ![w] = NoJob]
    /\ UNCHANGED <<clock, sub, storeUp, pending, processing, dead, produced,
                   ret, outages, acked, ackRet>>
    /\ UNCHANGED <<pipeVars, cancelled, poolVars>>
    /\ UNCHANGED <<enq, played, deleting, listed, deletes, refused, lost,
                   scoredAt>>

\* Ack called once more with a job whose Ack already returned nil
ReAck(d) ==
    /\ d \in acked
    /\ processing' = IF storeUp THEN SRem(processing, d) ELSE processing
    /\ ackRet' = AckError(storeUp, SRemCount(processing, d))
    /\ UNCHANGED <<clock, sub, storeUp, pending, dead, produced, pc, job,
                   ret, outages, acked>>
    /\ UNCHANGED <<pipeVars, cancelled, poolVars>>
    /\ UNCHANGED <<enq, played, deleting, listed, deletes, refused, lost,
                   scoredAt>>

\* ------------------------------------------------------------ pipeline
\* ProcessMedia's profiles: the same four video profiles whatever media.Type
VideoProfiles == <<"1080p", "720p", "480p", "360p">>

\* the profiles AudioProcessor.Process and ExtractAudio use
AudioProfiles == <<"high", "medium", "low">>

\* input.Profiles of the run for a record of media type k
PipelineProfiles(k) == VideoProfiles

\* generateMasterPlaylist: r.Bitrate is 0 in Execute's results, so the
\* bandwidth is estimated from the name
Bandwidth(name) ==
    CASE name = "1080p" -> 5000000
      [] name = "720p" -> 2500000
      [] name = "480p" -> 1000000
      [] name = "360p" -> 500000
      [] OTHER -> 1000000

\* generateAudioMasterPlaylist's bandwidth of a rendition
AudioBandwidth(name) ==
    CASE name = "high" -> 320000
      [] name = "medium" -> 192000
      [] name = "low" -> 96000
      [] OTHER -> 320000

\* the stream entries generateMasterPlaylist writes, one per rendition
MasterPlaylist(res) ==
    [i \in 1..Len(res) |-> [name |-> res[i], bandwidth |-> Bandwidth(res[i])]]

\* keys in the processed bucket, below the media id
MasterKey == <<"", "master.m3u8">>
PlaylistKey(name) == <<name, "playlist.m3u8">>

\* the segment files of a rendition, numbered from 0 by ffmpeg (%04d)
Segments == 1..MaxSegments
Digits == <<"0", "1", "2", "3", "4", "5", "6", "7", "8">>
SegmentKey(name, k) == <<name, "segment_000" \o Digits[k] \o ".ts">>

\* ExtractAudio's keys in the processed bucket
AudioMasterKey == <<"audio", "master.m3u8">>
AudioPlaylistKey(name) == <<"audio/" \o name, "playlist.m3u8">>
AudioSegmentKey(name, k) ==
    <<"audio/" \o name, "segment_000" \o Digits[k] \o ".aac">>

\* position of uploadProcessedFiles before the upload of segment k
SegmentPos(k) == "upsegment." \o Digits[k]

\* variant: every status update writes processed_at
UpdateStatusProcessedAtAlways(old, newStatus) == "set"

\* UpdateMediaStatus: processed_at is part of the update expression only
\* when the new status is completed
UpdateStatusProcessedAt(old, newStatus) ==
    IF newStatus = "completed" THEN "set" ELSE old

\* the deferred os.Remove(tempPath) that runs when ProcessMedia returns
RemoveSource(paths) == paths \ {"source"}

\* os.RemoveAll(input.OutputDir), with the default configuration in which
\* it is the directory Processor.Process created
RemoveOutput(paths) == paths \ {"output"}

\* the upload service creates the record of an uploaded file of type k
CreateMedia(k) ==
    /\ kind = "none"
    /\ kind' = k
    /\ status' = "pending"
    /\ UNCHANGED <<renditions, dest, ppc, idx, results, master, perr, runs>>
    /\ UNCHANGED <<queueVars, cancelled, poolVars>>
    /\ UNCHANGED waited
    /\ UNCHANGED <<processedAt, scratch>>
    /\ UNCHANGED <<played, deleting, listed, deletes, refused, lost, scoredAt>>

\* the signal arrives and main calls cancel()
PoolCancel ==
    /\ ~cancelled
    /\ cancelled' = TRUE
    /\ UNCHANGED <<queueVars, pipeVars, poolVars>>
    /\ UNCHANGED <<played, deleting, listed, deletes, refused, lost, scoredAt>>

\* processLoop: the select on ctx.Done() at the top of an iteration
LoopTop ==
    /\ ppc = "top"
    /\ ppc' = IF cancelled THEN "exited" ELSE "dequeue"
    /\ UNCHANGED <<kind, status, renditions, dest, idx, results, master, perr,
                   runs>>
    /\ UNCHANGED <<queueVars, cancelled, poolVars>>
    /\ UNCHANGED waited
    /\ UNCHANGED <<processedAt, scratch>>
    /\ UNCHANGED <<played, deleting, listed, deletes, refused, lost, scoredAt>>

\* processLoop: Dequeue returns the WorkItem's job (got), or an error or no
\* job, and the loop continues
LoopDequeue(got) ==
    /\ ppc = "dequeue"
    /\ IF got
       THEN /\ kind # "none"
            /\ runs < MaxRuns
            /\ runs' = runs + 1
            /\ ppc' = "get"
            /\ idx' = 0
            /\ results' = <<>>
            /\ master' = <<>>
            /\ perr' = Nil
       ELSE /\ ppc' = "top"
            /\ UNCHANGED <<runs, idx, results, master, perr>>
    /\ UNCHANGED <<kind, status, renditions, dest>>
    /\ UNCHANGED <<queueVars, cancelled, poolVars>>
    /\ UNCHANGED waited
    /\ UNCHANGED <<processedAt, scratch>>
    /\ UNCHANGED <<played, deleting, listed, deletes, refused, lost, scoredAt>>

\* ProcessMedia: GetMedia; its error is returned without markFailed. Like
\* every request to DynamoDB or S3 that the run issues with the pool's
\* context, it fails when the context is already cancelled
GetMedia(ok) ==
    /\ ppc = "get"
    /\ cancelled => ~ok
    /\ ppc' = IF ok /\ status # "none" THEN "setprocessing" ELSE "nack"
    /\ perr' = IF ok /\ status # "none" THEN perr ELSE ErrGetMedia
    /\ UNCHANGED <<kind, status, renditions, dest, idx, results, master, runs>>
    /\ UNCHANGED <<queueVars, cancelled, poolVars>>
    /\ UNCHANGED waited
    /\ UNCHANGED <<processedAt, scratch>>
    /\ UNCHANGED <<played, deleting, listed, deletes, refused, lost, scoredAt>>

\* ProcessMedia: UpdateMediaStatus(processing); its error is only logged
SetProcessing(ok) ==
    /\ ppc = "setprocessing"
    /\ cancelled => ~ok
    /\ status' = IF ok THEN "processing" ELSE status
    /\ ppc' = "download"
    /\ UNCHANGED <<kind, renditions, dest, idx, results, master, perr, runs>>
    /\ UNCHANGED <<queueVars, cancelled, poolVars>>
    /\ UNCHANGED waited
    /\ processedAt' = IF ok THEN UpdateStatusProcessedAt(processedAt, "processing")
                      ELSE processedAt
    /\ UNCHANGED scratch
    /\ UNCHANGED <<played, deleting, listed, deletes, refused, lost, scoredAt>>

\* ProcessMedia: Download of the source
Download(ok) ==
    /\ ppc = "download"
    /\ cancelled => ~ok
    /\ ppc' = IF ok THEN "save" ELSE "markfailed"
    /\ perr' = IF ok THEN perr ELSE ErrDownload
    /\ UNCHANGED <<kind, status, renditions, dest, idx, results, master, runs>>
    /\ UNCHANGED <<queueVars, cancelled, poolVars>>
    /\ UNCHANGED waited
    /\ UNCHANGED <<processedAt, scratch>>
    /\ UNCHANGED <<played, deleting, listed, deletes, refused, lost, scoredAt>>

\* ProcessMedia: the temp directory, the temp file and the copy into it (a
\* failed copy removes the file again)
SaveSource(ok) ==
    /\ ppc = "save"
    /\ ppc' = IF ok THEN "probe" ELSE "markfailed"
    /\ perr' = IF ok THEN perr ELSE ErrSave
    /\ UNCHANGED <<kind, status, renditions, dest, idx, results, master, runs>>
    /\ UNCHANGED <<queueVars, cancelled, poolVars>>
    /\ UNCHANGED waited
    /\ scratch' = IF ok THEN scratch \cup {"source"} ELSE scratch
    /\ UNCHANGED processedAt
    /\ UNCHANGED <<played, deleting, listed, deletes, refused, lost, scoredAt>>

\* Processor.Process: the output directory (MkdirAll) and the probe, either
\* of which may fail; then Execute starts with empty results. ffprobe is
\* started with exec.CommandContext, which starts nothing once the context
\* is cancelled
Probe(ok) ==
    /\ ppc = "probe"
    /\ cancelled => ~ok
    /\ ppc' = IF ok THEN "strategy" ELSE "markfailed"
    /\ perr' = IF ok THEN perr ELSE ErrProbe
    /\ idx' = IF ok THEN 1 ELSE idx
    /\ UNCHANGED <<kind, status, renditions, dest, results, master, runs>>
    /\ UNCHANGED <<queueVars, cancelled, poolVars>>
    /\ UNCHANGED waited
    /\ IF ok THEN scratch' = scratch \cup {"output"}
       ELSE \E made \in BOOLEAN :
              scratch' = IF made THEN scratch \cup {"output"} ELSE scratch
    /\ UNCHANGED processedAt
    /\ UNCHANGED <<played, deleting, listed, deletes, refused, lost, scoredAt>>

\* StrategyExecutor.Execute, one iteration: the check of ctx.Done() before
\* the command is built and started
StrategyCheck ==
    /\ ppc = "strategy"
    /\ ppc' = IF cancelled THEN "markfailed" ELSE "command"
    /\ perr' = IF cancelled THEN ErrCanceled ELSE perr
    /\ UNCHANGED <<kind, status, renditions, dest, idx, results, master, runs>>
    /\ UNCHANGED <<queueVars, cancelled, poolVars>>
    /\ UNCHANGED waited
    /\ UNCHANGED <<processedAt, scratch>>
    /\ UNCHANGED <<played, deleting, listed, deletes, refused, lost, scoredAt>>

\* variant: the remaining strategies still run after a failure and the first
\* error is returned at the end
RunStrategyLateAbort(ok) ==
    /\ ppc = "command"
    /\ results' = IF ok THEN Append(results, PipelineProfiles(kind)[idx])
                  ELSE results
    /\ idx' = idx + 1
    /\ perr' = IF ok THEN perr ELSE ErrStrategy
    /\ ppc' = IF idx < Len(PipelineProfiles(kind)) THEN "strategy"
              ELSE IF perr' = Nil THEN "genmaster" ELSE "markfailed"
    /\ UNCHANGED <<kind, status, renditions, dest, master, runs>>
    /\ UNCHANGED <<queueVars, cancelled, poolVars>>
    /\ waited' = 0
    /\ UNCHANGED <<processedAt, scratch>>
    /\ UNCHANGED <<played, deleting, listed, deletes, refused, lost, scoredAt>>

\* variant: the command's error is only logged and the rendition is kept
RunStrategyIgnoreError(ok) ==
    /\ ppc = "command"
    /\ results' = Append(results, PipelineProfiles(kind)[idx])
    /\ idx' = idx + 1
    /\ ppc' = IF idx = Len(PipelineProfiles(kind)) THEN "genmaster"
              ELSE "strategy"
    /\ perr' = IF ok THEN perr ELSE ErrStrategy
    /\ UNCHANGED <<kind, status, renditions, dest, master, runs>>
    /\ UNCHANGED <<queueVars, cancelled, poolVars>>
    /\ waited' = 0
    /\ UNCHANGED <<processedAt, scratch>>
    /\ UNCHANGED <<played, deleting, listed, deletes, refused, lost, scoredAt>>

\* StrategyExecutor.Execute, one iteration from the return of the ffmpeg
\* command (cmd.Run: its own failure, or the kill when the context is
\* cancelled while it runs; ok: it ended with exit status 0) to the append
RunStrategy(ok) ==
    /\ ppc = "command"
    /\ IF ~ok
       THEN /\ ppc' = "markfailed"
            /\ perr' = ErrStrategy
            /\ UNCHANGED <<idx, results>>
       ELSE /\ results' = Append(results, PipelineProfiles(kind)[idx])
            /\ idx' = idx + 1
            /\ ppc' = IF idx = Len(PipelineProfiles(kind)) THEN "genmaster"
                      ELSE "strategy"
            /\ UNCHANGED perr
    /\ UNCHANGED <<kind, status, renditions, dest, master, runs>>
    /\ UNCHANGED <<queueVars, cancelled, poolVars>>
    /\ waited' = 0
    /\ UNCHANGED <<processedAt, scratch>>
    /\ UNCHANGED <<played, deleting, listed, deletes, refused, lost, scoredAt>>

\* ffmpegExecutor.Execute: cmd.Run has not returned yet; the external process
\* runs for d more seconds (the context given to exec.CommandContext is the
\* pool's, which only the shutdown signal cancels)
CommandRuns(d) ==
    /\ ppc = "command"
    /\ ~cancelled
    /\ waited + d <= MaxWait
    /\ waited' = waited + d
    /\ UNCHANGED <<kind, status, renditions, dest, ppc, idx, results, master,
                   perr, runs, processedAt, scratch>>
    /\ UNCHANGED <<queueVars, cancelled, poolVars>>
    /\ UNCHANGED <<played, deleting, listed, deletes, refused, lost, scoredAt>>

\* Processor.Process: generateMasterPlaylist writes master.m3u8 to disk
GenerateMaster(ok) ==
    /\ ppc = "genmaster"
    /\ ppc' = IF ok THEN "upmaster" ELSE "markfailed"
    /\ master' = IF ok THEN MasterPlaylist(results) ELSE master
    /\ perr' = IF ok THEN perr ELSE ErrMaster
    /\ UNCHANGED <<kind, status, renditions, dest, idx, results, runs>>
    /\ UNCHANGED <<queueVars, cancelled, poolVars>>
    /\ UNCHANGED waited
    /\ UNCHANGED <<processedAt, scratch>>
    /\ UNCHANGED <<played, deleting, listed, deletes, refused, lost, scoredAt>>

\* uploadProcessedFiles: the master playlist is uploaded first; its error
\* is the only one the function returns
UploadMaster(ok) ==
    /\ ppc = "upmaster"
    /\ cancelled => ~ok
    /\ ppc' = IF ok THEN "upplaylist" ELSE "markfailed"
    /\ dest' = IF ok THEN dest \cup {MasterKey} ELSE dest
    /\ perr' = IF ok THEN perr ELSE ErrUpload
    /\ idx' = IF ok THEN 1 ELSE idx
    /\ UNCHANGED <<kind, status, renditions, results, master, runs>>
    /\ UNCHANGED <<queueVars, cancelled, poolVars>>
    /\ UNCHANGED waited
    /\ UNCHANGED <<processedAt, scratch>>
    /\ UNCHANGED <<played, deleting, listed, deletes, refused, lost, scoredAt>>

\* the answer of the object store to an upload or a delete whose error the
\* caller only logs or drops, when the context of the call is live: ok, or a
\* failure while failures are left
Refusal(ok) ==
    /\ ~ok => refused < MaxRefused
    /\ refused' = IF ok THEN refused ELSE refused + 1


\* uploadProcessedFiles: a rendition's playlist; on an error the loop logs
\* and continues with the next rendition. A PutObject issued after cancel()
\* fails, whatever the store would answer
UploadPlaylist(ok) ==
    /\ ppc = "upplaylist"
    /\ cancelled => ~ok
    /\ dest' = IF ok THEN dest \cup {PlaylistKey(results[idx])} ELSE dest
    /\ IF ok
       THEN ppc' = SegmentPos(1) /\ UNCHANGED idx
       ELSE IF idx = Len(results)
       THEN ppc' = "record" /\ idx' = 1
       ELSE ppc' = "upplaylist" /\ idx' = idx + 1
    /\ UNCHANGED <<kind, status, renditions, results, master, perr, runs>>
    /\ UNCHANGED <<queueVars, cancelled, poolVars>>
    /\ UNCHANGED waited
    /\ UNCHANGED <<processedAt, scratch>>
    /\ UNCHANGED <<played, deleting, listed, deletes, lost, scoredAt>>
    /\ IF cancelled THEN UNCHANGED refused ELSE Refusal(ok)

\* uploadProcessedFiles: uploadFile of segment k of a rendition; an error is
\* only logged and the loop goes on; after cancel() as for the playlist
UploadSegment(k, ok) ==
    /\ ppc = SegmentPos(k)
    /\ cancelled => ~ok
    /\ dest' = IF ok THEN dest \cup {SegmentKey(results[idx], k)} ELSE dest
    /\ IF k < MaxSegments
       THEN ppc' = SegmentPos(k + 1) /\ UNCHANGED idx
       ELSE IF idx = Len(results)
       THEN ppc' = "record" /\ idx' = 1
       ELSE ppc' = "upplaylist" /\ idx' = idx + 1
    /\ UNCHANGED <<kind, status, renditions, results, master, perr, runs>>
    /\ UNCHANGED <<queueVars, cancelled, poolVars>>
    /\ UNCHANGED waited
    /\ UNCHANGED <<processedAt, scratch>>
    /\ UNCHANGED <<played, deleting, listed, deletes, lost, scoredAt>>
    /\ IF cancelled THEN UNCHANGED refused ELSE Refusal(ok)

\* ProcessMedia: AddRendition for one rendition; its error is only logged.
\* The update expression appends to the renditions attribute, which an item
\* has when CreateMedia wrote it, not when a status update wrote it after
\* DeleteItem
AddRendition(ok) ==
    /\ ppc = "record"
    /\ cancelled => ~ok
    /\ renditions' = IF ok /\ status # "none" /\ kind # "deleted"
                     THEN Append(renditions, results[idx]) ELSE renditions
    /\ IF idx = Len(results)
       THEN ppc' = "setcompleted" /\ idx' = 0
       ELSE ppc' = "record" /\ idx' = idx + 1
    /\ UNCHANGED <<kind, status, dest, results, master, perr, runs>>
    /\ UNCHANGED <<queueVars, cancelled, poolVars>>
    /\ UNCHANGED waited
    /\ UNCHANGED <<processedAt, scratch>>
    /\ UNCHANGED <<played, deleting, listed, deletes, refused, lost, scoredAt>>

\* ProcessMedia: UpdateMediaStatus(completed), error only logged; the output
\* directory is removed; return nil, and the deferred removal of the source
SetCompleted(ok) ==
    /\ ppc = "setcompleted"
    /\ cancelled => ~ok
    /\ status' = IF ok THEN "completed" ELSE status
    /\ ppc' = "ack"
    /\ UNCHANGED <<kind, renditions, dest, idx, results, master, perr, runs>>
    /\ UNCHANGED <<queueVars, cancelled, poolVars>>
    /\ UNCHANGED waited
    /\ processedAt' = IF ok THEN UpdateStatusProcessedAt(processedAt, "completed")
                      ELSE processedAt
    /\ scratch' = RemoveSource(RemoveOutput(scratch))
    /\ UNCHANGED <<played, deleting, listed, deletes, refused, lost, scoredAt>>

\* markFailed: UpdateMediaStatus(failed), error only logged; then
\* ProcessMedia returns its error, and the deferred removal of the source
MarkFailed(ok) ==
    /\ ppc = "markfailed"
    /\ cancelled => ~ok
    /\ status' = IF ok THEN "failed" ELSE status
    /\ ppc' = "nack"
    /\ UNCHANGED <<kind, renditions, dest, idx, results, master, perr, runs>>
    /\ UNCHANGED <<queueVars, cancelled, poolVars>>
    /\ UNCHANGED waited
    /\ processedAt' = IF ok THEN UpdateStatusProcessedAt(processedAt, "failed")
                      ELSE processedAt
    /\ scratch' = RemoveSource(scratch)
    /\ UNCHANGED <<played, deleting, listed, deletes, refused, lost, scoredAt>>

\* processLoop: Ack after a nil return, Nack after an error; back to the top
LoopSettle ==
    /\ ppc \in {"ack", "nack"}
    /\ ppc' = "top"
    /\ UNCHANGED <<kind, status, renditions, dest, idx, results, master, perr,
                   runs>>
    /\ UNCHANGED <<queueVars, cancelled, poolVars>>
    /\ UNCHANGED waited
    /\ UNCHANGED <<processedAt, scratch>>
    /\ UNCHANGED <<played, deleting, listed, deletes, refused, lost, scoredAt>>

\* ------------------------------------------------------ worker entrypoint
\* main: go func() { worker.Start(ctx) }()
MainSpawn ==
    /\ mainpc = "spawn"
    /\ mainpc' = "signal"
    /\ startpc' = "start"
    /\ UNCHANGED <<launched, wg, lp, cancelled>>
    /\ UNCHANGED <<queueVars, pipeVars>>
    /\ UNCHANGED <<enq, played, deleting, listed, deletes, refused, lost,
                   scoredAt>>

\* main: SIGINT or SIGTERM arrives and <-quit returns
MainSignal ==
    /\ mainpc = "signal"
    /\ mainpc' = "cancel"
    /\ UNCHANGED <<startpc, launched, wg, lp, cancelled>>
    /\ UNCHANGED <<queueVars, pipeVars>>
    /\ UNCHANGED <<enq, played, deleting, listed, deletes, refused, lost,
                   scoredAt>>

\* main: cancel()
MainCancel ==
    /\ mainpc = "cancel"
    /\ mainpc' = "wait"
    /\ cancelled' = TRUE
    /\ UNCHANGED <<startpc, launched, wg, lp>>
    /\ UNCHANGED <<queueVars, pipeVars>>
    /\ UNCHANGED <<enq, played, deleting, listed, deletes, refused, lost,
                   scoredAt>>

\* Worker.Wait: w.wg.Wait() returns when the counter is zero
Wait ==
    /\ mainpc = "wait"
    /\ wg = 0
    /\ mainpc' = "waited"
    /\ UNCHANGED <<startpc, launched, wg, lp, cancelled>>
    /\ UNCHANGED <<queueVars, pipeVars>>
    /\ UNCHANGED <<enq, played, deleting, listed, deletes, refused, lost,
                   scoredAt>>

\* main returns after Wait: the process and all its goroutines end
MainReturn ==
    /\ mainpc = "waited"
    /\ mainpc' = "returned"
    /\ UNCHANGED <<startpc, launched, wg, lp, cancelled>>
    /\ UNCHANGED <<queueVars, pipeVars>>
    /\ UNCHANGED <<enq, played, deleting, listed, deletes, refused, lost,
                   scoredAt>>

\* Worker.Start, one iteration: w.wg.Add(1)
StartAdd ==
    /\ mainpc # "returned"
    /\ startpc = "start"
    /\ launched < MaxWorkers
    /\ wg' = wg + 1
    /\ startpc' = "go"
    /\ UNCHANGED <<mainpc, launched, lp, cancelled>>
    /\ UNCHANGED <<queueVars, pipeVars>>
    /\ UNCHANGED <<enq, played, deleting, listed, deletes, refused, lost,
                   scoredAt>>

\* Worker.Start, one iteration: go w.processLoop(ctx, i); i++
StartLaunch ==
    /\ mainpc # "returned"
    /\ startpc = "go"
    /\ launched' = launched + 1
    /\ lp' = [lp EXCEPT ![launched + 1] = "top"]
    /\ startpc' = "start"
    /\ UNCHANGED <<mainpc, wg, cancelled>>
    /\ UNCHANGED <<queueVars, pipeVars>>
    /\ UNCHANGED <<enq, played, deleting, listed, deletes, refused, lost,
                   scoredAt>>

\* Worker.Start: return nil after the last launch
StartReturn ==
    /\ mainpc # "returned"
    /\ startpc = "start"
    /\ launched = MaxWorkers
    /\ startpc' = "returned"
    /\ UNCHANGED <<mainpc, launched, wg, lp, cancelled>>
    /\ UNCHANGED <<queueVars, pipeVars>>
    /\ UNCHANGED <<enq, played, deleting, listed, deletes, refused, lost,
                   scoredAt>>

\* processLoop of loop l: the select at the top; on ctx.Done() the loop
\* returns and its deferred w.wg.Done() runs
PoolLoopTop(l) ==
    /\ mainpc # "returned"
    /\ lp[l] = "top"
    /\ IF cancelled
       THEN lp' = [lp EXCEPT ![l] = "exited"] /\ wg' = wg - 1
       ELSE lp' = [lp EXCEPT ![l] = "dequeue"] /\ UNCHANGED wg
    /\ UNCHANGED <<mainpc, startpc, launched, cancelled>>
    /\ UNCHANGED <<queueVars, pipeVars>>
    /\ UNCHANGED <<enq, played, deleting, listed, deletes, refused, lost,
                   scoredAt>>

\* processLoop of loop l: Dequeue returns a job, or an error or no job
PoolLoopDequeue(l, got) ==
    /\ mainpc # "returned"
    /\ lp[l] = "dequeue"
    /\ lp' = [lp EXCEPT ![l] = IF got THEN "process" ELSE "top"]
    /\ UNCHANGED <<mainpc, startpc, launched, wg, cancelled>>
    /\ UNCHANGED <<queueVars, pipeVars>>
    /\ UNCHANGED <<enq, played, deleting, listed, deletes, refused, lost,
                   scoredAt>>

\* processLoop of loop l: ProcessMedia returns nil or an error
PoolLoopProcess(l, ok) ==
    /\ mainpc # "returned"
    /\ lp[l] = "process"
    /\ lp' = [lp EXCEPT ![l] = IF ok THEN "ack" ELSE "nack"]
    /\ UNCHANGED <<mainpc, startpc, launched, wg, cancelled>>
    /\ UNCHANGED <<queueVars, pipeVars>>
    /\ UNCHANGED <<enq, played, deleting, listed, deletes, refused, lost,
                   scoredAt>>

\* processLoop of loop l: Ack or Nack returns; next iteration
PoolLoopSettle(l) ==
    /\ mainpc # "returned"
    /\ lp[l] \in {"ack", "nack"}
    /\ lp' = [lp EXCEPT ![l] = "top"]
    /\ UNCHANGED <<mainpc, startpc, launched, wg, cancelled>>
    /\ UNCHANGED <<queueVars, pipeVars>>
    /\ UNCHANGED <<enq, played, deleting, listed, deletes, refused, lost,
                   scoredAt>>

\* ------------------------------------------------------- specifications
Next ==
    \/ \E d \in TickSteps : Tick(d)
    \/ StoreDown
    \/ StoreRecover
    \/ \E id \in JobIds, p \in Priorities : EnqueueStamp(id, p)
    \/ \E id \in JobIds : EnqueueScore(id)
    \/ \E id \in JobIds : Enqueue(id)
    \/ \E w \in Workers : DequeuePop(w)
    \/ \E w \in Workers : DequeueTrack(w)
    \/ \E w \in Workers : DequeueTrackLost(w)
    \/ \E w \in Workers : DequeueRequeueStamp(w)
    \/ \E w \in Workers : DequeueRequeueScore(w)
    \/ \E w \in Workers : DequeueRequeue(w)
    \/ \E w \in Workers : Continue(w)
    \/ \E w \in Workers, ok \in BOOLEAN : Process(w, ok)
    \/ \E w \in Workers : Ack(w)
    \/ \E w \in Workers : NackRemove(w)
    \/ \E w \in Workers : NackStamp(w)
    \/ \E w \in Workers : NackScore(w)
    \/ \E w \in Workers : NackFinish(w)
    \/ \E w \in Workers : Crash(w)

Spec == Init /\ [][Next]_vars

NextAck ==
    \/ Next
    \/ \E d \in acked : ReAck(d)

SpecAck == Init /\ [][NextAck]_vars

\* the queue with callers that edit the job object they hold
NextEdit ==
    \/ Next
    \/ \E w \in Workers : CallerEdit(w)

SpecEdit == Init /\ [][NextEdit]_vars

\* the queue with a malformed member in the pending set
NextPoison ==
    \/ Next
    \/ StoreGarbage

SpecPoison == Init /\ [][NextPoison]_vars

\* one consumer loop running the pipeline on the WorkItem
NextPipe ==
    \/ \E k \in {"video", "audio"} : CreateMedia(k)
    \/ PoolCancel
    \/ LoopTop
    \/ \E got \in BOOLEAN : LoopDequeue(got)
    \/ \E ok \in BOOLEAN : GetMedia(ok)
    \/ \E ok \in BOOLEAN : SetProcessing(ok)
    \/ \E ok \in BOOLEAN : Download(ok)
    \/ \E ok \in BOOLEAN : SaveSource(ok)
    \/ \E ok \in BOOLEAN : Probe(ok)
    \/ StrategyCheck
    \/ \E ok \in BOOLEAN : RunStrategy(ok)
    \/ \E ok \in BOOLEAN : GenerateMaster(ok)
    \/ \E ok \in BOOLEAN : UploadMaster(ok)
    \/ \E ok \in BOOLEAN : UploadPlaylist(ok)
    \/ \E k \in Segments, ok \in BOOLEAN : UploadSegment(k, ok)
    \/ \E ok \in BOOLEAN : AddRendition(ok)
    \/ \E ok \in BOOLEAN : SetCompleted(ok)
    \/ \E ok \in BOOLEAN : MarkFailed(ok)
    \/ LoopSettle

SpecPipe == Init /\ [][NextPipe]_vars

\* the consumer loop with an external command that takes its time
NextHang ==
    \/ NextPipe
    \/ \E d \in WaitSteps : CommandRuns(d)

SpecHang == Init /\ [][NextHang]_vars

\* ------------------------------------------- queue and pipeline together
JobTypes == {"transcode", "audio", "thumbnail"}

\* Enqueue(job) called for the WorkItem with a job of type t, up to
\* job.CreatedAt = time.Now(); Enqueue(id) is the rest of the call
EnqueueTyped(id, priority, t) ==
    /\ kind # "none"
    /\ produced[id] = "no"
    /\ enq[id] = NoJob
    /\ sub < MaxSub
    /\ enq' = [enq EXCEPT ![id] =
                 Stamp([NewJob(id, priority) EXCEPT !.type = t,
                                                    !.media_id = 1])]
    /\ sub' = sub + 1
    /\ UNCHANGED <<clock, storeUp, pending, processing, dead, produced, pc,
                   job, ret, outages, acked, ackRet>>
    /\ UNCHANGED <<pipeVars, cancelled, poolVars>>
    /\ UNCHANGED <<played, deleting, listed, deletes, refused, lost, scoredAt>>

\* processLoop: the call of ProcessMedia with the dequeued job's MediaID,
\* whatever the job's Type
RunStart(w) ==
    /\ pc[w] = "process"
    /\ ppc = "top"
    /\ ppc' = "get"
    /\ runs' = runs + 1
    /\ idx' = 0
    /\ results' = <<>>
    /\ master' = <<>>
    /\ perr' = Nil
    /\ UNCHANGED <<kind, status, renditions, dest, processedAt, scratch,
                   waited>>
    /\ UNCHANGED <<queueVars, cancelled, poolVars>>
    /\ UNCHANGED <<played, deleting, listed, deletes, refused, lost, scoredAt>>

\* variant: after a failed run the loop goes on to the next Dequeue without
\* calling Nack
RunEndSkipsNack(w) ==
    /\ pc[w] = "process"
    /\ ppc \in {"ack", "nack"}
    /\ pc' = [pc EXCEPT ![w] = IF ppc = "nack" THEN "loop" ELSE ppc]
    /\ ppc' = "top"
    /\ UNCHANGED <<clock, sub, storeUp, pending, processing, dead, produced,
                   job, ret, outages, acked, ackRet>>
    /\ UNCHANGED <<kind, status, renditions, dest, idx, results, master, perr,
                   runs, processedAt, scratch, waited>>
    /\ UNCHANGED <<cancelled, poolVars>>
    /\ UNCHANGED <<enq, played, deleting, listed, deletes, refused, lost,
                   scoredAt>>

\* processLoop: ProcessMedia has returned; err != nil goes to Nack, nil to Ack
RunEnd(w) ==
    /\ pc[w] = "process"
    /\ ppc \in {"ack", "nack"}
    /\ pc' = [pc EXCEPT ![w] = ppc]
    /\ ppc' = "top"
    /\ UNCHANGED <<clock, sub, storeUp, pending, processing, dead, produced,
                   job, ret, outages, acked, ackRet>>
    /\ UNCHANGED <<kind, status, renditions, dest, idx, results, master, perr,
                   runs, processedAt, scratch, waited>>
    /\ UNCHANGED <<cancelled, poolVars>>
    /\ UNCHANGED <<enq, played, deleting, listed, deletes, refused, lost,
                   scoredAt>>

\* the first consumer loop
Loop1 == 1

\* the second ends once MaxSub timestamps were taken in it
SecondPasses ==
    /\ sub = MaxSub
    /\ \E d \in TickSteps : Tick(d)

\* the steps of the consumer loop and of ProcessMedia that depend on nothing
\* but the loop's own goroutine being scheduled and on calls that return
LoopSteps ==
    \/ DequeuePop(Loop1)
    \/ DequeueTrack(Loop1)
    \/ Continue(Loop1)
    \/ RunStart(Loop1)
    \/ \E ok \in BOOLEAN : GetMedia(ok)
    \/ \E ok \in BOOLEAN : SetProcessing(ok)
    \/ \E ok \in BOOLEAN : Download(ok)
    \/ \E ok \in BOOLEAN : SaveSource(ok)
    \/ \E ok \in BOOLEAN : Probe(ok)
    \/ StrategyCheck
    \/ \E ok \in BOOLEAN : GenerateMaster(ok)
    \/ \E ok \in BOOLEAN : UploadMaster(ok)
    \/ \E ok \in BOOLEAN : UploadPlaylist(ok)
    \/ \E k \in Segments, ok \in BOOLEAN : UploadSegment(k, ok)
    \/ \E ok \in BOOLEAN : AddRendition(ok)
    \/ \E ok \in BOOLEAN : SetCompleted(ok)
    \/ \E ok \in BOOLEAN : MarkFailed(ok)
    \/ RunEnd(Loop1)
    \/ Ack(Loop1)
    \/ NackRemove(Loop1)
    \/ NackStamp(Loop1)
    \/ NackScore(Loop1)
    \/ NackFinish(Loop1)

\* one WorkItem, its transcode job, one consumer loop; the store is available
\* and the pool is not cancelled
NextLive ==
    \/ SecondPasses
    \/ \E k \in {"video", "audio"} : CreateMedia(k)
    \/ EnqueueTyped(1, 1, "transcode")
    \/ EnqueueScore(1)
    \/ Enqueue(1)
    \/ LoopSteps
    \/ \E d \in WaitSteps : CommandRuns(d)
    \/ \E ok \in BOOLEAN : RunStrategy(ok)

\* the loop's goroutine is scheduled, the seconds pass, and the external
\* transcoder runs to completion or fails: every ffmpeg command returns
SpecLive ==
    /\ Init
    /\ [][NextLive]_vars
    /\ WF_vars(LoopSteps)
    /\ WF_vars(SecondPasses)
    /\ WF_vars(\E ok \in BOOLEAN : RunStrategy(ok))

\* --------------------------------------------------------- the API server
\* job ids no producer has used yet; uuid.New gives one of them
FreshIds ==
    IF Cardinality({i \in JobIds : produced[i] # "no"}) < MaxUploads
    THEN {i \in JobIds : produced[i] = "no" /\ enq[i] = NoJob}
    ELSE {}

\* the job that Upload and ConfirmUpload build for the WorkItem
UploadJob(id) == [NewJob(id, 1) EXCEPT !.media_id = 1]

\* Upload, up to the return of CreateMedia: UploadRaw, then CreateMedia; an
\* error of either is returned. With a queue set (q) the call goes on to build
\* the job, whose id is id; without one it returns success here
Upload(k, q, s3ok, createOk, id) ==
    /\ kind = "none"
    /\ id \in FreshIds
    /\ IF s3ok /\ createOk
       THEN /\ kind' = k
            /\ status' = "pending"
            /\ produced' = IF q THEN [produced EXCEPT ![id] = "new"]
                           ELSE produced
       ELSE UNCHANGED <<kind, status, produced>>
    /\ UNCHANGED <<clock, sub, storeUp, pending, processing, dead, enq, pc,
                   job, ret, outages, acked, ackRet>>
    /\ UNCHANGED <<renditions, dest, ppc, idx, results, master, perr, runs,
                   processedAt, scratch, waited>>
    /\ UNCHANGED <<cancelled, poolVars>>
    /\ UNCHANGED <<played, deleting, listed, deletes, refused, lost, scoredAt>>

\* variant: the call goes on to Enqueue whether or not the record was created
ConfirmUploadEnqueueAnyway(k, q, createOk, id) ==
    /\ id \in FreshIds
    /\ IF createOk /\ status = "none"
       THEN /\ kind' = k
            /\ status' = "pending"
       ELSE UNCHANGED <<kind, status>>
    /\ produced' = IF q THEN [produced EXCEPT ![id] = "new"] ELSE produced
    /\ UNCHANGED <<clock, sub, storeUp, pending, processing, dead, enq, pc,
                   job, ret, outages, acked, ackRet>>
    /\ UNCHANGED <<renditions, dest, ppc, idx, results, master, perr, runs,
                   processedAt, scratch, waited>>
    /\ UNCHANGED <<cancelled, poolVars>>
    /\ UNCHANGED <<played, deleting, listed, deletes, refused, lost, scoredAt>>

\* ConfirmUpload for the WorkItem's id, up to the return of CreateMedia
\* (which fails when a record with the id exists); then as Upload
ConfirmUpload(k, q, createOk, id) ==
    /\ id \in FreshIds
    /\ IF createOk /\ status = "none"
       THEN /\ kind' = k
            /\ status' = "pending"
            /\ produced' = IF q THEN [produced EXCEPT ![id] = "new"]
                           ELSE produced
       ELSE UNCHANGED <<kind, status, produced>>
    /\ UNCHANGED <<clock, sub, storeUp, pending, processing, dead, enq, pc,
                   job, ret, outages, acked, ackRet>>
    /\ UNCHANGED <<renditions, dest, ppc, idx, results, master, perr, runs,
                   processedAt, scratch, waited>>
    /\ UNCHANGED <<cancelled, poolVars>>
    /\ UNCHANGED <<played, deleting, listed, deletes, refused, lost, scoredAt>>

\* Upload and ConfirmUpload: the job is built and Enqueue is called, up to
\* job.CreatedAt = time.Now(); Enqueue(id) is the rest of the call, and the
\* handler returns success whatever Enqueue returned
UploadStamp(id) ==
    /\ produced[id] = "new"
    /\ enq[id] = NoJob
    /\ sub < MaxSub
    /\ enq' = [enq EXCEPT ![id] = Stamp(UploadJob(id))]
    /\ sub' = sub + 1
    /\ UNCHANGED <<clock, storeUp, pending, processing, dead, produced, pc,
                   job, ret, outages, acked, ackRet>>
    /\ UNCHANGED <<pipeVars, cancelled, poolVars>>
    /\ UNCHANGED <<played, deleting, listed, deletes, refused, lost, scoredAt>>

\* stream.Service.DeleteMedia, up to the return of DeleteItem: GetMedia, the
\* owner check, DeleteItem (ok: all three pass); jobs of the WorkItem stay in
\* the queue
DeleteMedia(ok) ==
    /\ status # "none"
    /\ ~deleting
    /\ listed = <<>>
    /\ deletes < MaxDeletes
    /\ deletes' = deletes + 1
    /\ IF ok
       THEN /\ kind' = "deleted"
            /\ status' = "none"
            /\ renditions' = <<>>
            /\ processedAt' = "unset"
            /\ deleting' = TRUE
       ELSE UNCHANGED <<kind, status, renditions, processedAt, deleting>>
    /\ UNCHANGED <<dest, ppc, idx, results, master, perr, runs, scratch,
                   waited>>
    /\ UNCHANGED <<queueVars, cancelled, poolVars>>
    /\ UNCHANGED <<played, listed, refused, lost, scoredAt>>

\* the keys of the processed bucket under the WorkItem's prefix, in the byte
\* order of the key strings, which is the order ListObjectsV2 returns
RenditionKeys(name) ==
    <<PlaylistKey(name)>> \o [k \in Segments |-> SegmentKey(name, k)]
AudioRenditionKeys(name) ==
    <<AudioPlaylistKey(name)>> \o [k \in Segments |-> AudioSegmentKey(name, k)]
KeyOrder ==
    RenditionKeys("1080p") \o RenditionKeys("360p") \o RenditionKeys("480p")
    \o RenditionKeys("720p") \o AudioRenditionKeys("high")
    \o AudioRenditionKeys("low") \o <<AudioMasterKey>>
    \o AudioRenditionKeys("medium") \o <<MasterKey>>

\* s3.Client.ListObjects of a bucket that holds keys
Listing(keys) == SelectSeq(KeyOrder, LAMBDA key : key \in keys)

\* stream.Service.DeleteMedia: the Delete of the source object, which is in
\* the raw bucket and whose error is only logged, and ListObjects of the
\* processed bucket; when the listing fails the call returns nil
DeleteList(ok) ==
    /\ deleting
    /\ deleting' = FALSE
    /\ listed' = IF ok THEN Listing(dest) ELSE <<>>
    /\ UNCHANGED <<kind, status, renditions, dest, ppc, idx, results, master,
                   perr, runs, processedAt, scratch, waited>>
    /\ UNCHANGED <<queueVars, cancelled, poolVars>>
    /\ UNCHANGED <<played, deletes, refused, lost, scoredAt>>

\* stream.Service.DeleteMedia: the Delete of the next listed object, whose
\* error is dropped; after the last one the call returns nil
DeleteObject(ok) ==
    /\ listed # <<>>
    /\ dest' = IF ok THEN dest \ {Head(listed)} ELSE dest
    /\ listed' = Tail(listed)
    /\ UNCHANGED <<kind, status, renditions, ppc, idx, results, master, perr,
                   runs, processedAt, scratch, waited>>
    /\ UNCHANGED <<queueVars, cancelled, poolVars>>
    /\ UNCHANGED <<played, deleting, deletes, lost, scoredAt>>
    /\ Refusal(ok)

\* s3.Client.UploadProcessed: the body is stored under key in the processed
\* bucket, or the call fails
UploadProcessed(ok, key) ==
    /\ dest' = IF ok THEN dest \cup {key} ELSE dest
    /\ UNCHANGED <<kind, status, renditions, ppc, idx, results, master, perr,
                   runs, processedAt, scratch, waited>>
    /\ UNCHANGED <<queueVars, cancelled, poolVars>>
    /\ UNCHANGED <<played, deleting, listed, deletes, refused, lost, scoredAt>>

\* s3.Client.CopyObject with the processed bucket as destination: the copy
\* is stored under key, or the call fails
CopyObject(ok, key) ==
    /\ dest' = IF ok THEN dest \cup {key} ELSE dest
    /\ UNCHANGED <<kind, status, renditions, ppc, idx, results, master, perr,
                   runs, processedAt, scratch, waited>>
    /\ UNCHANGED <<queueVars, cancelled, poolVars>>
    /\ UNCHANGED <<played, deleting, listed, deletes, refused, lost, scoredAt>>

\* stream.Service.GetPlaybackURL of the WorkItem; ok: GetItem answers
GetPlaybackURL(ok, cdn) ==
    /\ played' =
         IF ~ok THEN Returned("", ErrGetMedia)
         ELSE IF status = "none" THEN Returned("", ErrMediaNotFound)
         ELSE IF ~IsProcessed(status, renditions)
              THEN Returned("", ErrNotProcessed)
         ELSE Returned(BuildPlaybackURL(cdn, MasterPlaylistKey), Nil)
    /\ UNCHANGED <<queueVars, pipeVars, cancelled, poolVars>>
    /\ UNCHANGED <<deleting, listed, deletes, refused, lost, scoredAt>>

\* the consumer loop running the pipeline while a client asks for the
\* playback URL
NextPlay ==
    \/ NextPipe
    \/ \E ok, cdn \in BOOLEAN : GetPlaybackURL(ok, cdn)

SpecPlay == Init /\ [][NextPlay]_vars

\* audio.Service.ProcessAudioFile called for the WorkItem: GetMedia and the
\* check of the media type; an error is returned without markFailed
AudioGet(ok) ==
    /\ ppc = "top"
    /\ runs < MaxRuns
    /\ runs' = runs + 1
    /\ ppc' = IF ok /\ status # "none" /\ kind = "audio"
              THEN "audio.setprocessing" ELSE "top"
    /\ perr' = IF ~ok \/ status = "none" THEN ErrGetMedia
               ELSE IF kind # "audio" THEN ErrNotAudio
               ELSE Nil
    /\ UNCHANGED <<kind, status, renditions, dest, idx, results, master,
                   processedAt, scratch, waited>>
    /\ UNCHANGED <<queueVars, cancelled, poolVars>>
    /\ UNCHANGED <<played, deleting, listed, deletes, refused, lost, scoredAt>>

\* ProcessAudioFile: UpdateMediaStatus(processing); its error is only logged
AudioSetProcessing(ok) ==
    /\ ppc = "audio.setprocessing"
    /\ status' = IF ok THEN "processing" ELSE status
    /\ processedAt' = IF ok THEN UpdateStatusProcessedAt(processedAt, "processing")
                      ELSE processedAt
    /\ ppc' = "audio.download"
    /\ UNCHANGED <<kind, renditions, dest, idx, results, master, perr, runs,
                   scratch, waited>>
    /\ UNCHANGED <<queueVars, cancelled, poolVars>>
    /\ UNCHANGED <<played, deleting, listed, deletes, refused, lost, scoredAt>>

\* ProcessAudioFile: Download of the source
AudioDownload(ok) ==
    /\ ppc = "audio.download"
    /\ ppc' = IF ok THEN "audio.setcompleted" ELSE "audio.markfailed"
    /\ perr' = IF ok THEN perr ELSE ErrDownload
    /\ UNCHANGED <<kind, status, renditions, dest, idx, results, master, runs,
                   processedAt, scratch, waited>>
    /\ UNCHANGED <<queueVars, cancelled, poolVars>>
    /\ UNCHANGED <<played, deleting, listed, deletes, refused, lost, scoredAt>>

\* ProcessAudioFile: UpdateMediaStatus(completed), error only logged; nothing
\* was processed, uploaded or recorded before it; return nil
AudioSetCompleted(ok) ==
    /\ ppc = "audio.setcompleted"
    /\ status' = IF ok THEN "completed" ELSE status
    /\ processedAt' = IF ok THEN UpdateStatusProcessedAt(processedAt, "completed")
                      ELSE processedAt
    /\ ppc' = "top"
    /\ UNCHANGED <<kind, renditions, dest, idx, results, master, perr, runs,
                   scratch, waited>>
    /\ UNCHANGED <<queueVars, cancelled, poolVars>>
    /\ UNCHANGED <<played, deleting, listed, deletes, refused, lost, scoredAt>>

\* the audio service's markFailed, then the return of the download error
AudioMarkFailed(ok) ==
    /\ ppc = "audio.markfailed"
    /\ status' = IF ok THEN "failed" ELSE status
    /\ processedAt' = IF ok THEN UpdateStatusProcessedAt(processedAt, "failed")
                      ELSE processedAt
    /\ ppc' = "top"
    /\ UNCHANGED <<kind, renditions, dest, idx, results, master, perr, runs,
                   scratch, waited>>
    /\ UNCHANGED <<queueVars, cancelled, poolVars>>
    /\ UNCHANGED <<played, deleting, listed, deletes, refused, lost, scoredAt>>

\* position of ExtractAudio before the upload of segment k
ExtractSegmentPos(k) == "extract.upsegment." \o Digits[k]

\* ExtractAudio: GetMedia and the check of the media type
ExtractGet(ok) ==
    /\ ppc = "top"
    /\ runs < MaxRuns
    /\ runs' = runs + 1
    /\ ppc' = IF ok /\ status # "none" /\ kind = "video"
              THEN "extract.download" ELSE "top"
    /\ perr' = IF ~ok \/ status = "none" THEN ErrGetMedia
               ELSE IF kind # "video" THEN ErrNotVideo
               ELSE Nil
    /\ UNCHANGED <<kind, status, renditions, dest, idx, results, master,
                   processedAt, scratch, waited>>
    /\ UNCHANGED <<queueVars, cancelled, poolVars>>
    /\ UNCHANGED <<played, deleting, listed, deletes, refused, lost, scoredAt>>

\* ExtractAudio: Download of the source; an error is returned with no status
\* update
ExtractDownload(ok) ==
    /\ ppc = "extract.download"
    /\ ppc' = IF ok THEN "extract.save" ELSE "top"
    /\ perr' = IF ok THEN perr ELSE ErrDownload
    /\ UNCHANGED <<kind, status, renditions, dest, idx, results, master, runs,
                   processedAt, scratch, waited>>
    /\ UNCHANGED <<queueVars, cancelled, poolVars>>
    /\ UNCHANGED <<played, deleting, listed, deletes, refused, lost, scoredAt>>

\* ExtractAudio: the scratch source file; a failed copy removes the file
ExtractSave(ok) ==
    /\ ppc = "extract.save"
    /\ ppc' = IF ok THEN "extract.process" ELSE "top"
    /\ perr' = IF ok THEN perr ELSE ErrSave
    /\ scratch' = IF ok THEN scratch \cup {"source"} ELSE scratch
    /\ UNCHANGED <<kind, status, renditions, dest, idx, results, master, runs,
                   processedAt, waited>>
    /\ UNCHANGED <<queueVars, cancelled, poolVars>>
    /\ UNCHANGED <<played, deleting, listed, deletes, refused, lost, scoredAt>>

\* the stream entries generateAudioMasterPlaylist writes, one per rendition
AudioMasterPlaylist(res) ==
    [i \in 1..Len(res) |->
       [name |-> res[i], bandwidth |-> AudioBandwidth(res[i])]]

\* ExtractAudio returns the error of AudioProcessor.Process: the deferred
\* os.Remove takes the source file away and what the processor wrote stays
ExtractFails ==
    /\ ppc' = "top"
    /\ perr' = ErrExtract
    /\ scratch' = RemoveSource(scratch)

\* AudioProcessor.Process: MkdirAll of the output directory
\* <tempDir>/<id>-audio; then Execute starts with empty results
ExtractProcess(ok) ==
    /\ ppc = "extract.process"
    /\ IF ok
       THEN /\ ppc' = "extract.strategy"
            /\ scratch' = scratch \cup {"output"}
            /\ idx' = 1
            /\ results' = <<>>
            /\ UNCHANGED perr
       ELSE /\ ExtractFails
            /\ UNCHANGED <<idx, results>>
    /\ UNCHANGED <<kind, status, renditions, dest, master, runs, processedAt,
                   waited>>
    /\ UNCHANGED <<queueVars, cancelled, poolVars>>
    /\ UNCHANGED <<played, deleting, listed, deletes, refused, lost, scoredAt>>

\* StrategyExecutor.Execute for the audio profiles, one iteration: the check
\* of ctx.Done() before the command is built and started
ExtractStrategyCheck ==
    /\ ppc = "extract.strategy"
    /\ IF cancelled
       THEN ExtractFails
       ELSE ppc' = "extract.command" /\ UNCHANGED <<perr, scratch>>
    /\ UNCHANGED <<kind, status, renditions, dest, idx, results, master, runs,
                   processedAt, waited>>
    /\ UNCHANGED <<queueVars, cancelled, poolVars>>
    /\ UNCHANGED <<played, deleting, listed, deletes, refused, lost, scoredAt>>

\* StrategyExecutor.Execute for the audio profiles, one iteration from the
\* return of the ffmpeg command (ok: exit status 0) to the append; the first
\* failure ends Execute
ExtractRunStrategy(ok) ==
    /\ ppc = "extract.command"
    /\ IF ok
       THEN /\ results' = Append(results, AudioProfiles[idx])
            /\ idx' = idx + 1
            /\ ppc' = IF idx = Len(AudioProfiles) THEN "extract.genmaster"
                      ELSE "extract.strategy"
            /\ UNCHANGED <<perr, scratch>>
       ELSE /\ ExtractFails
            /\ UNCHANGED <<idx, results>>
    /\ UNCHANGED <<kind, status, renditions, dest, master, runs, processedAt,
                   waited>>
    /\ UNCHANGED <<queueVars, cancelled, poolVars>>
    /\ UNCHANGED <<played, deleting, listed, deletes, refused, lost, scoredAt>>

\* AudioProcessor.Process: generateAudioMasterPlaylist writes master.m3u8 to
\* the output directory
ExtractGenerateMaster(ok) ==
    /\ ppc = "extract.genmaster"
    /\ IF ok
       THEN /\ master' = AudioMasterPlaylist(results)
            /\ ppc' = "extract.upmaster"
            /\ UNCHANGED <<perr, scratch>>
       ELSE /\ ExtractFails
            /\ UNCHANGED master
    /\ UNCHANGED <<kind, status, renditions, dest, idx, results, runs,
                   processedAt, waited>>
    /\ UNCHANGED <<queueVars, cancelled, poolVars>>
    /\ UNCHANGED <<played, deleting, listed, deletes, refused, lost, scoredAt>>

\* ExtractAudio: the master playlist is uploaded, before any rendition (the
\* os.Open of the file the processor wrote is taken to succeed)
ExtractUploadMaster(ok) ==
    /\ ppc = "extract.upmaster"
    /\ ppc' = IF ok THEN "extract.upplaylist" ELSE "top"
    /\ dest' = IF ok THEN dest \cup {AudioMasterKey} ELSE dest
    /\ perr' = IF ok THEN perr ELSE ErrUploadAudioMaster
    /\ idx' = IF ok THEN 1 ELSE idx
    /\ scratch' = IF ok THEN scratch ELSE RemoveSource(scratch)
    /\ UNCHANGED <<kind, status, renditions, results, master, runs,
                   processedAt, waited>>
    /\ UNCHANGED <<queueVars, cancelled, poolVars>>
    /\ UNCHANGED <<played, deleting, listed, deletes, refused, lost, scoredAt>>

\* ExtractAudio: a rendition's playlist; the result of Upload is dropped
ExtractUploadPlaylist(ok) ==
    /\ ppc = "extract.upplaylist"
    /\ ppc' = ExtractSegmentPos(1)
    /\ dest' = IF ok THEN dest \cup {AudioPlaylistKey(results[idx])} ELSE dest
    /\ UNCHANGED <<kind, status, renditions, idx, results, master, perr, runs,
                   processedAt, scratch, waited>>
    /\ UNCHANGED <<queueVars, cancelled, poolVars>>
    /\ UNCHANGED <<played, deleting, listed, deletes, lost, scoredAt>>
    /\ Refusal(ok)

\* ExtractAudio: the Upload of segment k of a rendition, result dropped.
\* After the last one os.RemoveAll(input.OutputDir), which is not the
\* directory <tempDir>/<id>-audio the processor wrote to and removes
\* nothing, the deferred os.Remove of the source file and the return of nil
ExtractUploadSegment(k, ok) ==
    /\ ppc = ExtractSegmentPos(k)
    /\ dest' = IF ok THEN dest \cup {AudioSegmentKey(results[idx], k)}
               ELSE dest
    /\ IF k < MaxSegments
       THEN /\ ppc' = ExtractSegmentPos(k + 1)
            /\ UNCHANGED <<idx, scratch>>
       ELSE IF idx = Len(results)
       THEN /\ ppc' = "top"
            /\ scratch' = RemoveSource(scratch)
            /\ UNCHANGED idx
       ELSE /\ ppc' = "extract.upplaylist"
            /\ idx' = idx + 1
            /\ UNCHANGED scratch
    /\ UNCHANGED <<kind, status, renditions, results, master, perr, runs,
                   processedAt, waited>>
    /\ UNCHANGED <<queueVars, cancelled, poolVars>>
    /\ UNCHANGED <<played, deleting, listed, deletes, lost, scoredAt>>
    /\ Refusal(ok)

\* dynamodb.Client.UpdateMedia: PutItem of the whole record m, with no
\* condition: it replaces the item or creates it
UpdateMedia(ok, m) ==
    /\ ppc = "top"
    /\ kind' = IF ok THEN m.kind ELSE kind
    /\ status' = IF ok THEN m.status ELSE status
    /\ renditions' = IF ok THEN m.renditions ELSE renditions
    /\ processedAt' = IF ok THEN m.processedAt ELSE processedAt
    /\ UNCHANGED <<dest, ppc, idx, results, master, perr, runs, scratch,
                   waited>>
    /\ UNCHANGED <<queueVars, cancelled, poolVars>>
    /\ UNCHANGED <<played, deleting, listed, deletes, refused, lost, scoredAt>>

\* the *domain.Media values a caller passes to UpdateMedia
\* the audio service and UpdateMedia, which no entry point of the program
\* reaches, under a caller that uses them on the WorkItem
NextAudio ==
    \/ \E k \in {"video", "audio"} : CreateMedia(k)
    \/ \E ok \in BOOLEAN,
          m \in [kind : {"video", "audio"},
                 status : {"pending", "processing", "completed", "failed"},
                 renditions : {<<>>, <<VideoProfiles[1]>>},
                 processedAt : {"unset", "set"}] : UpdateMedia(ok, m)
    \/ \E ok \in BOOLEAN : AudioGet(ok)
    \/ \E ok \in BOOLEAN : AudioSetProcessing(ok)
    \/ \E ok \in BOOLEAN : AudioDownload(ok)
    \/ \E ok \in BOOLEAN : AudioSetCompleted(ok)
    \/ \E ok \in BOOLEAN : AudioMarkFailed(ok)
    \/ \E ok \in BOOLEAN : ExtractGet(ok)
    \/ \E ok \in BOOLEAN : ExtractDownload(ok)
    \/ \E ok \in BOOLEAN : ExtractSave(ok)
    \/ \E ok \in BOOLEAN : ExtractProcess(ok)
    \/ ExtractStrategyCheck
    \/ \E ok \in BOOLEAN : ExtractRunStrategy(ok)
    \/ \E ok \in BOOLEAN : ExtractGenerateMaster(ok)
    \/ \E ok \in BOOLEAN : ExtractUploadMaster(ok)
    \/ \E ok \in BOOLEAN : ExtractUploadPlaylist(ok)
    \/ \E k \in Segments, ok \in BOOLEAN : ExtractUploadSegment(k, ok)
    \/ \E ok \in BOOLEAN, key \in {MasterKey, AudioMasterKey} :
         CopyObject(ok, key)
    \/ \E ok \in BOOLEAN, key \in {MasterKey, AudioMasterKey} :
         UploadProcessed(ok, key)

SpecAudio == Init /\ [][NextAudio]_vars

\* DeleteMedia of the WorkItem over a processed bucket that callers of
\* CopyObject and UploadProcessed fill
NextStore ==
    \/ \E k \in {"video", "audio"} : CreateMedia(k)
    \/ \E ok \in BOOLEAN,
          key \in {MasterKey, PlaylistKey("360p"), SegmentKey("360p", 1),
                   AudioMasterKey,
                   AudioPlaylistKey("low"), AudioSegmentKey("low", 1)} :
         CopyObject(ok, key)
    \/ \E ok \in BOOLEAN, key \in {MasterKey, PlaylistKey("360p")} :
         UploadProcessed(ok, key)
    \/ \E ok \in BOOLEAN : DeleteMedia(ok)
    \/ \E ok \in BOOLEAN : DeleteList(ok)
    \/ \E ok \in BOOLEAN : DeleteObject(ok)

SpecStore == Init /\ [][NextStore]_vars

\* the API server's handlers, the queue and one consumer loop running the
\* pipeline on the WorkItem
NextApi ==
    \/ \E k \in {"video", "audio"}, q, s3ok, createOk \in BOOLEAN,
          id \in JobIds : Upload(k, q, s3ok, createOk, id)
    \/ \E k \in {"video", "audio"}, q, createOk \in BOOLEAN, id \in JobIds :
         ConfirmUpload(k, q, createOk, id)
    \/ \E id \in JobIds : UploadStamp(id)
    \/ \E id \in JobIds : EnqueueScore(id)
    \/ \E id \in JobIds : Enqueue(id)
    \/ \E ok \in BOOLEAN : DeleteMedia(ok)
    \/ \E ok \in BOOLEAN : DeleteList(ok)
    \/ \E ok \in BOOLEAN : DeleteObject(ok)
    \/ DequeuePop(Loop1)
    \/ DequeueTrack(Loop1)
    \/ Continue(Loop1)
    \/ RunStart(Loop1)
    \/ \E ok \in BOOLEAN : GetMedia(ok)
    \/ \E ok \in BOOLEAN : SetProcessing(ok)
    \/ \E ok \in BOOLEAN : Download(ok)
    \/ \E ok \in BOOLEAN : SaveSource(ok)
    \/ \E ok \in BOOLEAN : Probe(ok)
    \/ StrategyCheck
    \/ \E ok \in BOOLEAN : RunStrategy(ok)
    \/ \E ok \in BOOLEAN : GenerateMaster(ok)
    \/ \E ok \in BOOLEAN : UploadMaster(ok)
    \/ \E ok \in BOOLEAN : UploadPlaylist(ok)
    \/ \E k \in Segments, ok \in BOOLEAN : UploadSegment(k, ok)
    \/ \E ok \in BOOLEAN : AddRendition(ok)
    \/ \E ok \in BOOLEAN : SetCompleted(ok)
    \/ \E ok \in BOOLEAN : MarkFailed(ok)
    \/ RunEnd(Loop1)
    \/ Ack(Loop1)
    \/ NackRemove(Loop1)
    \/ NackStamp(Loop1)
    \/ NackScore(Loop1)
    \/ NackFinish(Loop1)

SpecApi == Init /\ [][NextApi]_vars

\* one WorkItem, its job in the queue, one consumer loop running the pipeline
NextWork ==
    \/ \E d \in TickSteps : Tick(d)
    \/ \E k \in {"video", "audio"} : CreateMedia(k)
    \/ \E t \in JobTypes : EnqueueTyped(1, 1, t)
    \/ EnqueueScore(1)
    \/ Enqueue(1)
    \/ DequeuePop(Loop1)
    \/ DequeueTrack(Loop1)
    \/ Continue(Loop1)
    \/ RunStart(Loop1)
    \/ \E ok \in BOOLEAN : GetMedia(ok)
    \/ \E ok \in BOOLEAN : SetProcessing(ok)
    \/ \E ok \in BOOLEAN : Download(ok)
    \/ \E ok \in BOOLEAN : SaveSource(ok)
    \/ \E ok \in BOOLEAN : Probe(ok)
    \/ StrategyCheck
    \/ \E ok \in BOOLEAN : RunStrategy(ok)
    \/ \E ok \in BOOLEAN : GenerateMaster(ok)
    \/ \E ok \in BOOLEAN : UploadMaster(ok)
    \/ \E ok \in BOOLEAN : UploadPlaylist(ok)
    \/ \E k \in Segments, ok \in BOOLEAN : UploadSegment(k, ok)
    \/ \E ok \in BOOLEAN : AddRendition(ok)
    \/ \E ok \in BOOLEAN : SetCompleted(ok)
    \/ \E ok \in BOOLEAN : MarkFailed(ok)
    \/ RunEnd(Loop1)
    \/ Ack(Loop1)
    \/ NackRemove(Loop1)
    \/ NackStamp(Loop1)
    \/ NackScore(Loop1)
    \/ NackFinish(Loop1)

SpecWork == Init /\ [][NextWork]_vars

\* the worker entrypoint: main, the goroutine calling Start, the loops
NextPool ==
    \/ MainSpawn
    \/ MainSignal
    \/ MainCancel
    \/ Wait
    \/ MainReturn
    \/ StartAdd
    \/ StartLaunch
    \/ StartReturn
    \/ \E l \in Workers : PoolLoopTop(l)
    \/ \E l \in Workers, got \in BOOLEAN : PoolLoopDequeue(l, got)
    \/ \E l \in Workers, ok \in BOOLEAN : PoolLoopProcess(l, ok)
    \/ \E l \in Workers : PoolLoopSettle(l)

SpecPool == Init /\ [][NextPool]_vars

\* ----------------------------------------------------------------- claims
\* worker w receives the reply to BZPOPMIN with a member in this step
Popped(w) == pc[w] = "loop" /\ pc'[w] = "track"

\* worker w's Nack returns nil in this step
NackReturnsNil(w) ==
    pc[w] \in {"nack2", "nack4"} /\ pc'[w] = "loop" /\ storeUp

\* the Attempts of the job worker w's Nack was called with, while the call
\* is past its SREM
NackedAttempts(w) ==
    IF pc[w] \in {"nack3", "nack4"} THEN job[w].attempts - 1
    ELSE job[w].attempts

\* timestamp a was taken before timestamp b
Earlier(a, b) == a[1] < b[1] \/ (a[1] = b[1] /\ a[2] < b[2])

PendingIds == {e.member.id : e \in pending}
ProcessingIds == {d.id : d \in processing}
DeadIds == {d.id : d \in dead}
AckedIds == {d.id : d \in acked}

\* C1 (as stated): when the pending jobs were put there by Enqueue calls with
\* pairwise distinct priorities, Dequeue never returns a job while a job of
\* higher priority is still pending, whatever the time between the Enqueues.
C1_PriorityOrderAnyGap ==
    [][\A w \in Workers :
         (/\ Popped(w)
          /\ \A a, b \in pending :
                a # b => a.member.priority # b.member.priority
          /\ \A a \in pending : a.member.attempts = 0)
         => \A e \in pending' : e.member.priority <= job'[w].priority]_vars

\* C1 (amended): Dequeue never returns a job while a job of higher priority
\* is still pending, unless the score of that job was computed from a clock
\* reading at least W seconds per unit of priority difference after the
\* reading the score of the returned job was computed from.
C1_PriorityOrderWithinW ==
    [][\A w \in Workers :
         Popped(w)
         => \A e \in pending' :
              e.member.priority > job'[w].priority
              => scoredAt[e.member.id] - scoredAt[job'[w].id]
                   >= W * (e.member.priority - job'[w].priority)]_vars

\* C1 witness: Dequeue has returned a job while a job of lower priority that
\* was enqueued before it is still pending.
C1_Witness ==
    \E w \in Workers :
      /\ pc[w] = "track"
      /\ \E e \in pending :
           /\ e.member.priority < job[w].priority
           /\ Earlier(e.member.created_at, job[w].created_at)

\* C2 (as stated): among pending jobs of equal priority Dequeue returns the
\* one that was enqueued first, also when they were enqueued within the same
\* clock second.
C2_EqualPriorityFifo ==
    [][\A w \in Workers :
         Popped(w)
         => \A e \in pending' :
              e.member.priority = job'[w].priority
              => Earlier(job'[w].created_at, e.member.created_at)]_vars

C4_NackDeadLetter ==
    [][/\ \A w \in Workers :
            (NackReturnsNil(w) /\ NackedAttempts(w) = MaxAttempts - 1)
            => /\ pc[w] = "nack2"
               /\ job[w] \notin processing'
               /\ \E d \in dead' : d.id = job[w].id
               /\ \A e \in pending' : e.member.id # job[w].id
       /\ \A d \in dead :
            /\ d \in dead'
            /\ \A e \in pending' : e.member.id # d.id]_vars

\* C4 witness: a job has been dead-lettered by its third Nack.
C4_Witness ==
    \E d \in dead : d.id \notin PendingIds /\ d \notin processing

\* C5 (as stated): the record of a job in the dead-letter set carries the
\* job's final attempt count, attempts = MaxAttempts.
C5_DeadLetterFinalAttempts ==
    \A d \in dead : d.attempts = MaxAttempts

\* C6: no member of the pending set has attempts >= MaxAttempts.
C6_PendingBelowMaxAttempts ==
    \A e \in pending : e.member.attempts < MaxAttempts

\* C6 witness: a job on its last attempt is pending after Dequeue re-enqueued
\* it because the in-flight tracking failed.
C6_Witness ==
    \E w \in Workers :
      /\ ret[w] = ErrTrack
      /\ \E e \in pending : e.member.attempts = MaxAttempts - 1

\* C7: a second Ack of a job, answered by the store, returns nil and leaves
\* the pending, processing and dead-letter sets unchanged.
C7_AckIdempotent ==
    [][\A d \in acked :
         (ReAck(d) /\ storeUp)
         => /\ ackRet' = Nil
            /\ UNCHANGED <<pending, processing, dead>>]_vars

\* C7 witness: an Ack was repeated for an acknowledged job and returned nil.
C7_Witness ==
    /\ acked # {}
    /\ ackRet = Nil

\* C8 (as stated): every job that was enqueued and is neither acknowledged
\* nor dead-lettered is in the pending set or in the processing set.
C8_DequeueAtomic ==
    \A id \in JobIds :
      (produced[id] = "ok" /\ id \notin AckedIds /\ id \notin DeadIds)
      => (id \in PendingIds \/ id \in ProcessingIds)

\* C9 (as stated): when the SADD of Dequeue has failed, Dequeue returns an
\* error and the job is in the pending set again with the same id, priority
\* and attempts.
C9_RequeueAfterTrackFailure ==
    [][\A w \in Workers :
         (pc[w] = "requeue3" /\ pc'[w] \notin {"requeue3", "crashed"})
         => /\ ret'[w] # Nil
            /\ \E e \in pending' :
                 /\ e.member.id = job[w].id
                 /\ e.member.priority = job[w].priority
                 /\ e.member.attempts = job[w].attempts]_vars

\* C10 (as stated): when Dequeue returns "no job available" the loop takes
\* its empty-poll branch, not its dequeue-error branch.
C10_TimeoutIsEmptyPoll ==
    \A w \in Workers : ret[w] = ErrNoJobAvailable => pc[w] = "empty"

\* ProcessMedia has returned to the loop: nil before Ack, an error before Nack
RunSucceeded == ppc = "ack"
RunFailed == ppc = "nack"

\* the playlist and the segments of rendition name are in the processed bucket
Published(name) ==
    /\ PlaylistKey(name) \in dest
    /\ \A k \in Segments : SegmentKey(name, k) \in dest

\* a run in which every step succeeded has returned nil
CleanRun ==
    /\ RunSucceeded
    /\ status = "completed"
    /\ \A i \in 1..Len(results) : Published(results[i])
    /\ Len(renditions) = runs * Len(results)

\* C11 (as stated): a WorkItem whose status is completed has a non-empty
\* rendition list, also when rendition-record writes fail.
C11_CompletedHasRenditions ==
    status = "completed" => Len(renditions) > 0

\* C12: a run that fails while producing its N-th profile appends no
\* rendition record (so at most N-1); a record is appended only by a run
\* whose production completed for every profile, and names such a profile.
C12_NoRenditionFromFailedRun ==
    [][/\ (perr' = ErrStrategy /\ ppc' # "get") => renditions' = renditions
       /\ renditions' # renditions
          => /\ perr = Nil
             /\ Len(results) = Len(PipelineProfiles(kind))
             /\ \E k \in 1..Len(results) :
                  renditions' = Append(renditions, results[k])]_vars

\* C12 witness: a run has failed at its 3rd profile, after two profiles were
\* produced, and the record has no rendition.
C12_Witness ==
    /\ RunFailed
    /\ perr = ErrStrategy
    /\ Len(results) = 2
    /\ renditions = <<>>

\* C13 (as stated): when publishing the outputs of the 2nd of the 4 video
\* profiles has failed, the run ends with status failed, exactly 1 recorded
\* rendition and no master manifest in the destination store.
C13_PublishFailureFailsRun ==
    (/\ ppc \in {"ack", "nack"}
     /\ runs = 1
     /\ Len(results) = 4
     /\ ~Published(results[2])
     /\ \A i \in {1, 3, 4} : Published(results[i]))
    => /\ status = "failed"
       /\ Len(renditions) = 1
       /\ MasterKey \notin dest

\* C14 (as stated): a successful run for a WorkItem of kind audio records
\* exactly the renditions high, medium, low, and its master manifest has one
\* entry per rendition with bandwidth 320000, 192000, 96000.
C14_AudioRenditions ==
    (kind = "audio" /\ CleanRun /\ runs = 1)
    => /\ renditions = AudioProfiles
       /\ master = [i \in 1..3 |->
                      [name |-> AudioProfiles[i],
                       bandwidth |-> AudioBandwidth(AudioProfiles[i])]]

\* C17 (as stated): a run that was in progress when the pool was cancelled
\* ends with its normal outcome: the error ProcessMedia returns is never the
\* cancellation of the pool's context.
C17_CancelDoesNotInterrupt ==
    ppc \in {"ack", "nack"} => perr # ErrCanceled

\* C20 (as stated): while the master manifest is in the destination store,
\* every rendition it references is published there.
C20_MasterUploadedLast ==
    MasterKey \in dest
    => \A i \in 1..Len(master) : Published(master[i].name)

\* C15: for a job it obtained from Dequeue the loop calls Ack if and only if
\* ProcessMedia returned nil and Nack if and only if it returned an error,
\* one of the two and only one before the next Dequeue.
C15_AckXorNack ==
    [][\A w \in Workers :
         /\ Process(w, TRUE) => pc'[w] = "ack"
         /\ Process(w, FALSE) => pc'[w] = "nack"
         /\ (pc[w] = "process" /\ pc'[w] # "process")
            => (pc'[w] \in {"ack", "nack"} /\ job'[w] = job[w])
         /\ (pc'[w] \in {"ack", "nack"} /\ pc[w] # pc'[w]) => pc[w] = "process"
         /\ (pc[w] = "ack" /\ pc'[w] # "ack") => pc'[w] = "loop"
         /\ (pc[w] = "nack" /\ pc'[w] # "nack") => pc'[w] \in {"nack2", "loop"}
         /\ (pc[w] = "nack2" /\ pc'[w] # "nack2")
            => pc'[w] \in {"nack3", "loop"}
         /\ (pc[w] = "nack3" /\ pc'[w] # "nack3") => pc'[w] = "nack4"
         /\ (pc[w] = "nack4" /\ pc'[w] # "nack4") => pc'[w] = "loop"]_vars

\* C15 witness: one loop is in Ack after a nil return while another is in
\* Nack after an error.
C15_Witness ==
    \E a, b \in Workers : pc[a] = "ack" /\ pc[b] = "nack2"

\* worker w holds a job that Dequeue popped for it
Holds(w) == job[w].id # 0

\* C18: no two workers hold the same job (same id and same attempts) at the
\* same time; the producer enqueues every id once.
C18_OneWorkerPerEntry ==
    \A a, b \in Workers :
      (a # b /\ Holds(a) /\ Holds(b))
      => ~(job[a].id = job[b].id /\ job[a].attempts = job[b].attempts)

\* C18 witness: two workers hold jobs at the same time, popped from a pending
\* set that held both.
C18_Witness ==
    \E a, b \in Workers :
      /\ a # b
      /\ Holds(a) /\ Holds(b)
      /\ pc[a] = "process" /\ pc[b] = "track"

\* worker w's Nack returns an error in this step: its SREM failed, or its
\* ZADD or dead-letter SADD failed
NackReturnsError(w) ==
    \/ pc[w] = "nack" /\ pc'[w] = "loop"
    \/ pc[w] \in {"nack2", "nack4"} /\ pc'[w] = "loop" /\ ~storeUp

\* C19 (as stated): when Nack returns an error, the job is still in the
\* pending, the processing or the dead-letter set.
C19_NackErrorKeepsJob ==
    [][\A w \in Workers :
         NackReturnsError(w)
         => \/ \E e \in pending' : e.member.id = job[w].id
            \/ \E d \in processing' : d.id = job[w].id
            \/ \E d \in dead' : d.id = job[w].id]_vars

\* a launched consumer loop that has not exited
Running(l) == lp[l] \notin {"none", "exited"}

\* C16 (as stated): Wait does not return while a launched consumer loop is
\* still running, also when Start is called from its own goroutine.
C16_WaitCoversLoops ==
    mainpc = "waited" => \A l \in Workers : ~Running(l)

\* C21 (as stated): the status becomes completed only when, for every
\* configured profile, the playlist and the segments are in the destination
\* store and a rendition record of the profile is on the WorkItem.
C21_CompletedOnlyWhenAllPublished ==
    [][(ppc = "setcompleted" /\ status' = "completed")
       => \A i \in 1..Len(PipelineProfiles(kind)) :
            /\ Published(PipelineProfiles(kind)[i])
            /\ \E k \in 1..Len(renditions) :
                 renditions[k] = PipelineProfiles(kind)[i]]_vars

\* C22 (as stated): when ProcessMedia has returned an error the WorkItem is
\* in status failed.
C22_ErrorReturnMarksFailed ==
    RunFailed => status = "failed"

\* C24: processed_at is written only by the status update to completed; the
\* updates to processing and failed and the rendition appends leave it as it
\* was.
C24_ProcessedAtOnlyOnCompleted ==
    [][/\ processedAt' # processedAt
          => (ppc = "setcompleted" /\ status' = "completed"
              /\ processedAt' = "set")
       /\ ppc \in {"setprocessing", "markfailed", "record"}
          => processedAt' = processedAt]_vars

\* C24 witness: the WorkItem is completed with processed_at set, after the
\* update to processing and rendition appends.
C24_Witness ==
    /\ status = "completed"
    /\ processedAt = "set"
    /\ Len(renditions) > 0

\* C25 (as stated): when ProcessMedia has returned, on the success path and
\* on every failure path, neither the scratch source file nor the scratch
\* output directory exists.
C25_ScratchRemoved ==
    ppc \in {"ack", "nack"} => scratch = {}

\* the run in progress has failed in Execute
ExecuteFailed == perr \in {ErrStrategy, ErrCanceled} /\ ppc # "dequeue"

\* C26: Execute runs the strategies one at a time in the order of the
\* profiles; once the command of a strategy has failed, or the context was
\* cancelled before it, the run executes no further strategy, publishes and
\* records nothing and does not set the status to completed.
C26_ExecuteAbortsOnFailure ==
    [][/\ Len(results') <= Len(results) + 1
       /\ \A i \in 1..Len(results') : results'[i] = VideoProfiles[i]
       /\ (ppc \in {"strategy", "command"}
           /\ perr' \in {ErrStrategy, ErrCanceled})
          => (ppc' = "markfailed" /\ results' = results)
       /\ ExecuteFailed
          => /\ results' = results
             /\ renditions' = renditions
             /\ dest' = dest
             /\ status' # status => status' = "failed"]_vars

\* C26 witness: the command of the 2nd strategy has failed after the 1st one
\* succeeded, and the run is about to mark the WorkItem failed.
C26_Witness ==
    /\ ppc = "markfailed"
    /\ perr = ErrStrategy
    /\ results = <<VideoProfiles[1]>>

\* C27 (as stated): a job re-enqueued by Nack is ordered by the time of the
\* Nack: Dequeue returns it only when no job of the same priority that was
\* enqueued before the Nack is still pending, and Dequeue never returns a job
\* while a re-enqueued job of higher priority is pending.
C27_RetryOrderedByNackTime ==
    [][\A w \in Workers :
         Popped(w)
         => /\ job'[w].attempts > 0
               => \A e \in pending' :
                    e.member.priority = job'[w].priority
                    => ~Earlier(e.member.created_at, job'[w].created_at)
            /\ \A e \in pending' :
                 e.member.attempts > 0
                 => e.member.priority <= job'[w].priority]_vars


\* C28: a Dequeue that fails because the store is unavailable never ends the
\* consumer loop: the loop takes the error branch, from which its only step
\* is the continue statement back to the top of the iteration, which is
\* always possible and leaves the queue as it was.
C28_DequeueErrorNotFatal ==
    /\ [](\A w \in Workers : pc[w] = "deqerr" => ENABLED Continue(w))
    /\ [][\A w \in Workers :
            /\ (pc[w] = "loop" /\ ~storeUp /\ pc'[w] # "loop")
               => (pc'[w] = "deqerr" /\ ret'[w] = ErrDequeue)
            /\ pc[w] = "deqerr" => pc'[w] \in {"deqerr", "loop"}
            /\ (pc[w] = "deqerr" /\ pc'[w] = "loop")
               => UNCHANGED <<pending, processing, dead>>]_vars

\* C28 witness: a loop has received the Dequeue error, the store has
\* recovered since and a job is pending for the loop's next Dequeue.
C28_Witness ==
    \E w \in Workers :
      /\ pc[w] = "deqerr"
      /\ ret[w] = ErrDequeue
      /\ storeUp
      /\ pending # {}

\* C30 (as stated): a pipeline run is bounded by the job timeout: no external
\* command of a run is still running more than JobTimeout seconds after it
\* was started.
C30_RunBoundedByJobTimeout ==
    ppc = "command" => waited <= JobTimeout

\* C23 (as stated): when the job is in the dead-letter set the WorkItem it
\* targets is in status failed.
C23_DeadLetterMeansFailed ==
    dead # {} => status = "failed"

\* C29 (as stated): the outputs of a run for a job of type audio are audio
\* profiles.
C29_PipelineByJobKind ==
    \A w \in Workers :
      (pc[w] = "process" /\ ppc # "top" /\ job[w].type = "audio")
      => \A i \in 1..Len(results) :
           \E k \in 1..Len(AudioProfiles) : results[i] = AudioProfiles[k]

\* C31 (as stated): when Dequeue pops a member that cannot be decoded and
\* returns the deserialization error, the member is in the dead-letter set.
C31_PoisonEntryDeadLettered ==
    [][\A w \in Workers :
         (ret[w] # ErrUnmarshal /\ ret'[w] = ErrUnmarshal)
         => Garbage \in dead']_vars

\* worker w's Ack returns nil in this step
AckReturnsNil(w) == pc[w] = "ack" /\ pc'[w] = "loop" /\ storeUp

\* C32 (as stated): after Ack or Nack has returned nil for a job obtained
\* from Dequeue, the processing set holds no entry with that job's id, also
\* when the caller changed a field of the job object in between.
C32_SettledById ==
    [][\A w \in Workers :
         (AckReturnsNil(w) \/ NackReturnsNil(w))
         => \A d \in processing' : d.id # job[w].id]_vars

\* the WorkItem's record exists
RecordExists == status # "none"

\* the jobs in the pending set and in the processing set
QueuedJobs == {e.member : e \in pending} \cup processing

\* C33 (as stated): in every reachable state every job in the pending or the
\* processing set references a WorkItem record that exists.
C33_JobsReferenceExistingRecord ==
    QueuedJobs # {} => RecordExists

\* C33 (amended): every job in the pending or the processing set references
\* a WorkItem whose record was created before the job was enqueued (the
\* record exists, or DeleteMedia has removed it since); a call builds and
\* enqueues a job only when its CreateMedia has created the record; the step
\* of DeleteMedia that deletes the record leaves the pending and the
\* processing set as they are.
C33_JobsReferenceCreatedRecord ==
    /\ [](QueuedJobs # {} => kind # "none")
    /\ [][\A i \in JobIds :
            (produced[i] = "no" /\ produced'[i] # "no")
            => (status = "none" /\ status' = "pending")]_vars
    /\ [][(status # "none" /\ status' = "none")
            => (pending' = pending /\ processing' = processing)]_vars

\* C33 witness: the record is pending and its job is in the pending set.
C33_Witness ==
    /\ status = "pending"
    /\ \E e \in pending : e.member.media_id = 1 /\ e.member.attempts = 0

\* C38 (as stated): an Upload or ConfirmUpload that returns success has put a
\* transcode job for the WorkItem in the pending set: the call that created
\* the record goes on to Enqueue, and when its Enqueue has returned the job
\* is pending.
C38_UploadEnqueuesJob ==
    [][/\ (status = "none" /\ status' = "pending")
          => \E i \in JobIds : produced[i] = "no" /\ produced'[i] = "new"
       /\ \A i \in JobIds :
            (produced[i] = "new" /\ produced'[i] # "new")
            => \E e \in pending' :
                 /\ e.member.id = i
                 /\ e.member.media_id = 1
                 /\ e.member.type = "transcode"
                 /\ e.member \notin {o.member : o \in pending}]_vars

\* job i is acknowledged or in the dead-letter set
Settled(i) == i \in AckedIds \/ i \in DeadIds

\* C34: with fair consumer loops, an available store, no cancellation and
\* an external transcoder that returns, every enqueued job is eventually
\* acknowledged or placed in the dead-letter set, and the pipeline is run
\* for it at most MaxAttempts times.
C34_EveryJobSettled ==
    /\ [](runs <= MaxAttempts)
    /\ \A i \in JobIds : (produced[i] = "ok") ~> Settled(i)

\* C34 witness: the job is in the dead-letter set after MaxAttempts runs of
\* the pipeline, and in no other set.
C34_Witness ==
    /\ runs = MaxAttempts
    /\ DeadIds = {1}
    /\ pending = {} /\ processing = {}

\* C35 (as stated): no job id is in two of the pending, processing and
\* dead-letter sets at once.
C35_SetsDisjointById ==
    /\ PendingIds \cap ProcessingIds = {}
    /\ PendingIds \cap DeadIds = {}
    /\ ProcessingIds \cap DeadIds = {}

\* C36 (as stated, for the WorkItem): once the pool was cancelled and its
\* consumer loop has returned, the WorkItem the loop processed is not in
\* status processing.
C36_ShutdownLeavesNoProcessing ==
    (cancelled /\ ppc = "exited" /\ runs > 0) => status # "processing"

\* the status transitions of a WorkItem: creation, and the four of the state
\* machine
StatusTransitions ==
    {<<"none", "pending">>, <<"pending", "processing">>,
     <<"processing", "completed">>, <<"processing", "failed">>,
     <<"failed", "processing">>}

\* C37 (as stated): the status of a WorkItem changes only along pending ->
\* processing, processing -> completed, processing -> failed and failed ->
\* processing, and once it is completed neither the status nor the rendition
\* list changes.
C37_StatusStateMachine ==
    [][/\ status' # status => <<status, status'>> \in StatusTransitions
       /\ status = "completed"
          => (status' = status /\ renditions' = renditions)]_vars

\* C39: GetPlaybackURL returns a playback URL only for a WorkItem whose status
\* is completed and whose rendition list is non-empty; for a WorkItem that is
\* pending, processing or failed, or completed with no rendition, the call
\* returns an error and no URL, at every point of a pipeline run.
C39_PlaybackOnlyWhenProcessed ==
    [][(\E ok, cdn \in BOOLEAN : GetPlaybackURL(ok, cdn))
       => /\ played'.url # ""
             => (status = "completed" /\ Len(renditions) > 0)
          /\ (\/ status \in {"pending", "processing", "failed"}
              \/ (status = "completed" /\ Len(renditions) = 0))
             => (played'.err # Nil /\ played'.url = "")]_vars

\* a URL was returned for the completed WorkItem
C39_Witness ==
    /\ played.url # ""
    /\ played.err = Nil
    /\ status = "completed"
    /\ Len(renditions) > 0

\* the call was refused while renditions were already recorded
C39_RefusedWithRenditions ==
    /\ played.err = ErrNotProcessed
    /\ Len(renditions) > 0
    /\ status # "completed"

\* the WorkItem is completed and has no rendition
C39_CompletedNoRendition == status = "completed" /\ Len(renditions) = 0

====
